---- MODULE Spec2Model ----
(***************************************************************************)
(* Refresh-and-reconcile pipeline of the job role matcher.                 *)
(*                                                                         *)
(* backend/scraper/runner.py  ScraperRunner.refresh_all / _refresh_company *)
(* backend/database.py        Database (one shared sqlite3 connection)     *)
(*                                                                         *)
(* The store is one sqlite3 connection opened with check_same_thread=False *)
(* and used by every worker thread and by the thread that calls            *)
(* refresh_all.  "disk" is what has been committed, "conn" is what the     *)
(* connection sees (committed rows plus the uncommitted writes of every    *)
(* thread), "in_transaction" is sqlite3's Connection.in_transaction.       *)
(* Each sqlite statement is one atomic step of the thread that issues it.  *)
(***************************************************************************)
EXTENDS Integers, Sequences, FiniteSets, TLC

VARIABLES
    config,          \* config.companies: sequence of company names
    feed,            \* what each company's adapter returns in this cycle
    disk,            \* committed contents of the database file
    conn,            \* contents as seen through the shared connection
    in_transaction,  \* the connection has an open transaction
    task,            \* one _refresh_company call per entry of config
    main,            \* the thread running refresh_all; "since" is when it
                     \* called future.result for the future it waits on
    disk0,           \* history: committed contents when refresh_all started
    user,            \* history: update_review_status calls made so far
    evaluations,     \* the evaluations table
    inserted,        \* history: number of insert_evaluation calls per posting
    scorer,          \* the ScoringEngine: configuration, signals, returned values
    now              \* CURRENT_TIMESTAMP, in seconds

vars == <<config, feed, disk, conn, in_transaction, task, main, disk0, user,
          evaluations, inserted, now, scorer>>

-----------------------------------------------------------------------------
(* Bounds of the model *)

MaxExt == 2           \* external ids are 1..MaxExt
MaxFeedLen == 2       \* longest fetch of the concurrent specification
MaxPriorCycles == 2   \* sequential refresh cycles run before Init
MaxReviews == 1       \* update_review_status calls per behaviour
MaxJobId == 2         \* posting ids addressed by the user and the scorer
MaxEvals == 5         \* insert_evaluation calls per behaviour
MaxNow == 2           \* last second of the clock

(* Program constants *)

max_workers == 4
timeout == 30          \* seconds
chunk_size == 900
KeepEvaluations == 3

-----------------------------------------------------------------------------
(* Values *)

NoneId == 0          \* Python None where an id is expected
NULL == "NULL"       \* SQL NULL / Python None in a text column

Names == {"A", "B"}

TimeoutMsg == "Timeout"
NestedBeginMsg == "cannot start a transaction within a transaction"
AdapterMsg == "adapter failed"

Range(s) == {s[j] : j \in DOMAIN s}

SetMin(S) == CHOOSE x \in S : \A y \in S : x <= y
SetMax(S) == 0 - SetMin({0 - x : x \in S})
MinOf(a, b) == IF a <= b THEN a ELSE b

(* The content of the current cycle's postings differs from the content    *)
(* stored by earlier cycles, so that an update is visible in the row.      *)
OldContent == "v1"
NewContent == "v2"

RawJobPosting(ext, content) == [external_id |-> ext, content |-> content]

-----------------------------------------------------------------------------
(* Schema defaults (schema.sql) *)

DefaultActive == TRUE
DefaultReviewStatus == "NEW"
DefaultAdapterStatus == NULL
DefaultCreatedAt == now      \* CURRENT_TIMESTAMP, to the second
DefaultLastSuccessfulFetch == 0 - 1      \* NULL: never fetched

-----------------------------------------------------------------------------
(* Database statements, as functions of the connection's view *)

EmptyDb == [companies |-> {}, job_postings |-> {}]

\* cursor.lastrowid of an INSERT into a rowid table
lastrowid(rows) == IF rows = {} THEN 1 ELSE SetMax({r.id : r \in rows}) + 1

\* fetchone() of a SELECT without ORDER BY: the row with the least rowid
fetchone(rows) == CHOOSE r \in rows : \A q \in rows : r.id <= q.id

upsert_company(db, name) ==
    LET existing == {c \in db.companies : c.name = name}
    IN  IF existing # {}
        THEN [db |-> db, id |-> fetchone(existing).id]
        ELSE LET id == lastrowid(db.companies)
             IN  [db |-> [db EXCEPT !.companies = @ \cup
                            {[id |-> id, name |-> name,
                              adapter_status |-> DefaultAdapterStatus,
                              error_message |-> NULL,
                              last_successful_fetch |->
                                  DefaultLastSuccessfulFetch]}],
                  id |-> id]

get_company_id_by_name(db, name) ==
    LET rows == {c \in db.companies : c.name = name}
    IN  IF rows # {} THEN fetchone(rows).id ELSE NoneId

\* As update_company_status, but last_successful_fetch is set on ERROR too
update_company_status_always_stamps(db, company_id, status, error) ==
    [db EXCEPT !.companies =
        {IF c.id = company_id
         THEN [c EXCEPT !.adapter_status = status,
                        !.error_message = error,
                        !.last_successful_fetch = now]
         ELSE c : c \in @}]

update_company_status(db, company_id, status, error) ==
    [db EXCEPT !.companies =
        {IF c.id = company_id
         THEN [c EXCEPT !.adapter_status = status,
                        !.error_message = error,
                        !.last_successful_fetch =
                            IF status = "OK" THEN now ELSE @]
         ELSE c : c \in @}]

\* As upsert_job_posting, but the UPDATE also resets user_review_status
upsert_job_posting_resets_review(db, company_id, raw_job) ==
    LET existing == {p \in db.job_postings :
                        /\ p.company_id = company_id
                        /\ p.external_id = raw_job.external_id}
    IN  IF existing # {}
        THEN LET e == fetchone(existing)
             IN  [db |-> [db EXCEPT !.job_postings =
                            {IF p.id = e.id
                             THEN [p EXCEPT !.content = raw_job.content,
                                            !.active = TRUE,
                                            !.user_review_status =
                                                DefaultReviewStatus]
                             ELSE p : p \in @}],
                  job_id |-> e.id, is_new |-> FALSE]
        ELSE LET id == lastrowid(db.job_postings)
             IN  [db |-> [db EXCEPT !.job_postings = @ \cup
                            {[id |-> id, company_id |-> company_id,
                              external_id |-> raw_job.external_id,
                              content |-> raw_job.content,
                              active |-> DefaultActive,
                              user_review_status |-> DefaultReviewStatus,
                              date_found |-> DefaultCreatedAt]}],
                  job_id |-> id, is_new |-> TRUE]

\* As upsert_job_posting, but without the SELECT: every posting is inserted
upsert_job_posting_always_inserts(db, company_id, raw_job) ==
    LET id == lastrowid(db.job_postings)
    IN  [db |-> [db EXCEPT !.job_postings = @ \cup
                   {[id |-> id, company_id |-> company_id,
                     external_id |-> raw_job.external_id,
                     content |-> raw_job.content,
                     active |-> DefaultActive,
                     user_review_status |-> DefaultReviewStatus,
                     date_found |-> DefaultCreatedAt]}],
         job_id |-> id, is_new |-> TRUE]

\* As upsert_job_posting, but the UPDATE also sets date_found
upsert_job_posting_found_again(db, company_id, raw_job) ==
    LET existing == {p \in db.job_postings :
                        /\ p.company_id = company_id
                        /\ p.external_id = raw_job.external_id}
    IN  IF existing # {}
        THEN LET e == fetchone(existing)
             IN  [db |-> [db EXCEPT !.job_postings =
                            {IF p.id = e.id
                             THEN [p EXCEPT !.content = raw_job.content,
                                            !.active = TRUE,
                                            !.date_found = now]
                             ELSE p : p \in @}],
                  job_id |-> e.id, is_new |-> FALSE]
        ELSE LET id == lastrowid(db.job_postings)
             IN  [db |-> [db EXCEPT !.job_postings = @ \cup
                            {[id |-> id, company_id |-> company_id,
                              external_id |-> raw_job.external_id,
                              content |-> raw_job.content,
                              active |-> DefaultActive,
                              user_review_status |-> DefaultReviewStatus,
                              date_found |-> DefaultCreatedAt]}],
                  job_id |-> id, is_new |-> TRUE]

upsert_job_posting(db, company_id, raw_job) ==
    LET existing == {p \in db.job_postings :
                        /\ p.company_id = company_id
                        /\ p.external_id = raw_job.external_id}
    IN  IF existing # {}
        THEN LET e == fetchone(existing)
             IN  [db |-> [db EXCEPT !.job_postings =
                            {IF p.id = e.id
                             THEN [p EXCEPT !.content = raw_job.content,
                                            !.active = TRUE]
                             ELSE p : p \in @}],
                  job_id |-> e.id, is_new |-> FALSE]
        ELSE LET id == lastrowid(db.job_postings)
             IN  [db |-> [db EXCEPT !.job_postings = @ \cup
                            {[id |-> id, company_id |-> company_id,
                              external_id |-> raw_job.external_id,
                              content |-> raw_job.content,
                              active |-> DefaultActive,
                              user_review_status |-> DefaultReviewStatus,
                              date_found |-> DefaultCreatedAt]}],
                  job_id |-> id, is_new |-> TRUE]

\* UPDATE job_postings SET active = FALSE WHERE company_id = ? AND active = TRUE
MarkAllInactive(db, company_id) ==
    [db EXCEPT !.job_postings =
        {IF p.company_id = company_id /\ p.active
         THEN [p EXCEPT !.active = FALSE] ELSE p : p \in @}]

\* UPDATE ... WHERE company_id = ? AND external_id NOT IN (chunk) AND active = TRUE
MarkChunkInactive(db, company_id, chunk) ==
    [db EXCEPT !.job_postings =
        {IF p.company_id = company_id /\ p.external_id \notin chunk /\ p.active
         THEN [p EXCEPT !.active = FALSE] ELSE p : p \in @}]

\* seen_external_ids[i:i + chunk_size], i counted from 0
Chunk(seen, i) == {seen[j] : j \in (i + 1)..MinOf(i + chunk_size, Len(seen))}

update_review_status(db, job_id, status) ==
    [db EXCEPT !.job_postings =
        {IF p.id = job_id THEN [p EXCEPT !.user_review_status = status]
         ELSE p : p \in @}]

-----------------------------------------------------------------------------
(* _refresh_company run alone, from its first statement to its last *)

RECURSIVE UpsertAll(_, _, _, _)
UpsertAll(db, company_id, raw_jobs, k) ==
    IF k > Len(raw_jobs) THEN db
    ELSE UpsertAll(upsert_job_posting(db, company_id, raw_jobs[k]).db,
                   company_id, raw_jobs, k + 1)

RECURSIVE MarkChunks(_, _, _, _)
MarkChunks(db, company_id, seen, i) ==
    IF i >= Len(seen) THEN db
    ELSE MarkChunks(MarkChunkInactive(db, company_id, Chunk(seen, i)),
                    company_id, seen, i + chunk_size)

mark_missing_jobs_inactive(db, company_id, seen) ==
    IF Len(seen) = 0 THEN MarkAllInactive(db, company_id)
    ELSE MarkChunks(db, company_id, seen, 0)

SeenIds(raw_jobs) == [j \in 1..Len(raw_jobs) |-> raw_jobs[j].external_id]

RefreshAlone(db, name, raw_jobs) ==
    LET uc == upsert_company(db, name)
        up == UpsertAll(uc.db, uc.id, raw_jobs, 1)
        mk == mark_missing_jobs_inactive(up, uc.id, SeenIds(raw_jobs))
    IN  update_company_status(mk, uc.id, "OK", NULL)

-----------------------------------------------------------------------------
(* Inputs: adapter results and the store left by earlier cycles *)

\* Lists of distinct external ids, as an adapter reports them
ExtIdLists(n) ==
    {s \in UNION {[1..m -> 1..MaxExt] : m \in 0..n} :
        \A a, b \in DOMAIN s : a # b => s[a] # s[b]}

JobsOf(ids, content) == [j \in DOMAIN ids |-> RawJobPosting(ids[j], content)]

\* An adapter either returns a list of postings or raises
Feeds(n) == {[raises |-> FALSE, jobs |-> JobsOf(ids, NewContent)] :
                ids \in ExtIdLists(n)}
            \cup {[raises |-> TRUE, jobs |-> <<>>]}

\* One earlier refresh cycle in which no two sources overlapped
RECURSIVE PriorCycle(_, _, _, _)
PriorCycle(db, cfg, ids, i) ==
    IF i > Len(cfg) THEN db
    ELSE PriorCycle(RefreshAlone(db, cfg[i], JobsOf(ids, OldContent)),
                    cfg, ids, i + 1)

PriorFeeds == {[j \in 1..m |-> j] : m \in 1..MaxExt}

RECURSIVE PriorStores(_, _)
PriorStores(cfg, n) ==
    IF n = 0 THEN {EmptyDb}
    ELSE {PriorCycle(db, cfg, ids, 1) :
              db \in PriorStores(cfg, n - 1), ids \in PriorFeeds}

InitStores(cfg) == UNION {PriorStores(cfg, n) : n \in 0..MaxPriorCycles}

-----------------------------------------------------------------------------
(* Threads *)

Tasks == 1..Len(config)

InitTask ==
    [pc |-> "queued", started |-> 0, company_id |-> NoneId, k |-> 1, chunk_i |-> 0,
     touched_job_ids |-> <<>>, seen_ids |-> <<>>,
     new_count |-> 0, updated_count |-> 0, error |-> NULL]

InitMain ==
    [pc |-> "result", i |-> 1, since |-> 0, results |-> <<>>,
     touched_job_ids |-> <<>>, company_id |-> NoneId, error |-> NULL]

\* No job is being scored
NoScorer == [weights |-> NULL, signals |-> NULL, returned |-> <<>>]

\* per posting, the number of evaluations inserted so far
NoneInserted == [j \in 1..MaxJobId |-> 0]

\* calls made, and per posting the last status set and the content it had then
InitUser == [calls |-> 0,
             last |-> [j \in 1..MaxJobId |-> NULL],
             was |-> [j \in 1..MaxJobId |-> NULL]]

CompanyResult(company_id, name, status, error, new_count, updated_count, touched) ==
    [company_id |-> company_id, company_name |-> name, status |-> status,
     error_message |-> error, new_count |-> new_count,
     updated_count |-> updated_count, touched_job_ids |-> touched]

Finished(i) == task[i].pc \in {"done", "raised"}
Executing(i) == task[i].pc \notin {"queued", "done", "raised"}

RawJobs(i) == feed[config[i]].jobs

InitWith(cfg, feeds, stores) ==
    /\ now = 0
    /\ config = cfg
    /\ feed \in [Names -> feeds]
    /\ disk \in stores
    /\ conn = disk
    /\ in_transaction = FALSE
    /\ task = [i \in 1..Len(cfg) |-> InitTask]
    /\ main = InitMain
    /\ disk0 = disk
    /\ user = InitUser
    /\ evaluations = {}
    /\ inserted = NoneInserted
    /\ scorer = NoScorer

Companies == <<"A", "B">>

Init == InitWith(Companies, Feeds(MaxFeedLen), InitStores(Companies))

Frame == UNCHANGED <<config, feed, disk0, evaluations, inserted, now, scorer>>

\* conn.commit()
Commit == /\ disk' = conn
          /\ conn' = conn
          /\ in_transaction' = FALSE

\* conn.rollback()
Rollback == /\ conn' = disk
            /\ disk' = disk
            /\ in_transaction' = FALSE

\* conn.execute(<INSERT/UPDATE/DELETE>): sqlite3 opens a transaction first
Execute(db) == /\ conn' = db
               /\ disk' = disk
               /\ in_transaction' = TRUE

Goto(i, pc) == task' = [task EXCEPT ![i].pc = pc]

-----------------------------------------------------------------------------
(* ScraperRunner._refresh_company, one step per statement *)

\* As Start, but with a thread per submitted task
StartUnbounded(i) ==
    /\ task[i].pc = "queued"
    /\ task' = [task EXCEPT ![i].pc = "upsert_company", ![i].started = now]
    /\ UNCHANGED <<disk, conn, in_transaction, main, user>>
    /\ Frame

\* A pool worker picks the task up
Start(i) ==
    /\ task[i].pc = "queued"
    /\ Cardinality({j \in Tasks : Executing(j)}) < max_workers
    /\ task' = [task EXCEPT ![i].pc = "upsert_company", ![i].started = now]
    /\ UNCHANGED <<disk, conn, in_transaction, main, user>>
    /\ Frame

UpsertCompanyExecute(i) ==
    /\ task[i].pc = "upsert_company"
    /\ LET uc == upsert_company(conn, config[i])
       IN  /\ Execute(uc.db)
           /\ task' = [task EXCEPT ![i].pc = "upsert_company_commit",
                                   ![i].company_id = uc.id]
    /\ UNCHANGED <<main, user>>
    /\ Frame

UpsertCompanyCommit(i) ==
    /\ task[i].pc = "upsert_company_commit"
    /\ Commit
    /\ Goto(i, "fetch")
    /\ UNCHANGED <<main, user>>
    /\ Frame

\* get_adapter(...).fetch_jobs() and the normalisation loop
Fetch(i) ==
    /\ task[i].pc = "fetch"
    /\ IF feed[config[i]].raises
       THEN task' = [task EXCEPT ![i].pc = "status", ![i].error = AdapterMsg]
       ELSE Goto(i, "begin")
    /\ UNCHANGED <<disk, conn, in_transaction, main, user>>
    /\ Frame

AfterUpserts(i, k) == IF k > Len(RawJobs(i)) THEN "mark" ELSE "upsert"

\* Database.transaction: conn.execute("BEGIN")
Begin(i) ==
    /\ task[i].pc = "begin"
    /\ IF in_transaction
       THEN /\ task' = [task EXCEPT ![i].pc = "rollback",
                                    ![i].error = NestedBeginMsg]
            /\ UNCHANGED <<disk, conn, in_transaction>>
       ELSE /\ Goto(i, AfterUpserts(i, 1))
            /\ in_transaction' = TRUE
            /\ UNCHANGED <<disk, conn>>
    /\ UNCHANGED <<main, user>>
    /\ Frame

\* Database.transaction: except Exception: conn.rollback(); raise
TransactionRollback(i) ==
    /\ task[i].pc = "rollback"
    /\ Rollback
    /\ Goto(i, "status")
    /\ UNCHANGED <<main, user>>
    /\ Frame

UpsertJobExecute(i) ==
    /\ task[i].pc = "upsert"
    /\ LET raw_job == RawJobs(i)[task[i].k]
           up == upsert_job_posting(conn, task[i].company_id, raw_job)
       IN  /\ Execute(up.db)
           /\ task' = [task EXCEPT
                 ![i].pc = "upsert_commit",
                 ![i].touched_job_ids = Append(@, up.job_id),
                 ![i].seen_ids = Append(@, raw_job.external_id),
                 ![i].new_count = IF up.is_new THEN @ + 1 ELSE @,
                 ![i].updated_count = IF up.is_new THEN @ ELSE @ + 1]
    /\ UNCHANGED <<main, user>>
    /\ Frame

UpsertJobCommit(i) ==
    /\ task[i].pc = "upsert_commit"
    /\ Commit
    /\ task' = [task EXCEPT ![i].pc = AfterUpserts(i, task[i].k + 1),
                            ![i].k = @ + 1]
    /\ UNCHANGED <<main, user>>
    /\ Frame

\* mark_missing_jobs_inactive: one UPDATE per chunk, or one for an empty list
MarkMissingExecute(i) ==
    /\ task[i].pc = "mark"
    /\ LET seen == task[i].seen_ids
           at == task[i].chunk_i
       IN  IF Len(seen) = 0
           THEN /\ Execute(MarkAllInactive(conn, task[i].company_id))
                /\ Goto(i, "mark_commit")
           ELSE /\ Execute(MarkChunkInactive(conn, task[i].company_id,
                                             Chunk(seen, at)))
                /\ task' = [task EXCEPT
                      ![i].chunk_i = at + chunk_size,
                      ![i].pc = IF at + chunk_size >= Len(seen)
                                THEN "mark_commit" ELSE "mark"]
    /\ UNCHANGED <<main, user>>
    /\ Frame

MarkMissingCommit(i) ==
    /\ task[i].pc = "mark_commit"
    /\ Commit
    /\ Goto(i, "transaction_commit")
    /\ UNCHANGED <<main, user>>
    /\ Frame

\* Database.transaction: conn.commit() after the with-body
TransactionCommit(i) ==
    /\ task[i].pc = "transaction_commit"
    /\ Commit
    /\ Goto(i, "status")
    /\ UNCHANGED <<main, user>>
    /\ Frame

TaskStatus(i) == IF task[i].error = NULL THEN "OK" ELSE "ERROR"

\* update_company_status(company_id, "OK", None) or (company_id, "ERROR", str(e))
StatusExecute(i) ==
    /\ task[i].pc = "status"
    /\ Execute(update_company_status(conn, task[i].company_id,
                                     TaskStatus(i), task[i].error))
    /\ Goto(i, "status_commit")
    /\ UNCHANGED <<main, user>>
    /\ Frame

\* ... its commit, then return CompanyResult(...) or raise
StatusCommit(i) ==
    /\ task[i].pc = "status_commit"
    /\ Commit
    /\ Goto(i, IF task[i].error = NULL THEN "done" ELSE "raised")
    /\ UNCHANGED <<main, user>>
    /\ Frame

TaskResult(i) ==
    CompanyResult(task[i].company_id, config[i], "OK", NULL,
                  task[i].new_count, task[i].updated_count,
                  task[i].touched_job_ids)

TaskStep(i) ==
    \/ Start(i)
    \/ UpsertCompanyExecute(i)
    \/ UpsertCompanyCommit(i)
    \/ Fetch(i)
    \/ Begin(i)
    \/ TransactionRollback(i)
    \/ UpsertJobExecute(i)
    \/ UpsertJobCommit(i)
    \/ MarkMissingExecute(i)
    \/ MarkMissingCommit(i)
    \/ TransactionCommit(i)
    \/ StatusExecute(i)
    \/ StatusCommit(i)

-----------------------------------------------------------------------------
(* ScraperRunner.refresh_all: the loop over future_map, then the executor's *)
(* __exit__, which waits for every submitted task                           *)

Waiting == main.pc = "result" /\ main.i <= Len(config)

\* future.result(timeout=self.timeout) returns the task's CompanyResult
ResultReturned ==
    /\ Waiting
    /\ task[main.i].pc = "done"
    /\ main' = [main EXCEPT
          !.results = Append(@, TaskResult(main.i)),
          !.touched_job_ids = @ \o task[main.i].touched_job_ids,
          !.i = @ + 1,
          !.since = now]
    /\ UNCHANGED <<disk, conn, in_transaction, task, user>>
    /\ Frame

\* As ErrorResult, but carrying the counts and touched ids the task has so far
ErrorResultKeepsCounts(company_id, name, error) ==
    CompanyResult(company_id, name, "ERROR", error,
                  task[main.i].new_count, task[main.i].updated_count,
                  task[main.i].touched_job_ids)

ErrorResult(company_id, name, error) ==
    CompanyResult(company_id, name, "ERROR", error, 0, 0, <<>>)

\* The two except branches: look the company up, record ERROR, build the result
HandleError(error) ==
    LET name == config[main.i]
        company_id == get_company_id_by_name(conn, name)
    IN  IF company_id # NoneId
        THEN /\ Execute(update_company_status(conn, company_id, "ERROR", error))
             /\ main' = [main EXCEPT !.pc = "error_commit",
                                     !.company_id = company_id,
                                     !.error = error]
        ELSE /\ main' = [main EXCEPT
                   !.results = Append(@, ErrorResult(NoneId, name, error)),
                   !.i = @ + 1,
                   !.since = now]
             /\ UNCHANGED <<disk, conn, in_transaction>>

\* As ResultTimeout, but the timed-out source is left out of the results
ResultTimeoutSkips ==
    /\ Waiting
    /\ ~Finished(main.i)
    /\ main' = [main EXCEPT !.i = @ + 1, !.since = now]
    /\ UNCHANGED <<disk, conn, in_transaction, task, user>>
    /\ Frame

\* future.result raises FuturesTimeoutError: the task has not finished in time
ResultTimeout ==
    /\ Waiting
    /\ ~Finished(main.i)
    /\ HandleError(TimeoutMsg)
    /\ UNCHANGED <<task, user>>
    /\ Frame

\* future.result re-raises the task's exception
ResultRaised ==
    /\ Waiting
    /\ task[main.i].pc = "raised"
    /\ HandleError(task[main.i].error)
    /\ UNCHANGED <<task, user>>
    /\ Frame

\* commit of update_company_status, then results.append(error_result)
ErrorCommit ==
    /\ main.pc = "error_commit"
    /\ Commit
    /\ main' = [main EXCEPT
          !.pc = "result",
          !.results = Append(@, ErrorResult(main.company_id, config[main.i],
                                            main.error)),
          !.i = @ + 1,
          !.since = now]
    /\ UNCHANGED <<task, user>>
    /\ Frame

\* As Return, but without waiting for the tasks still running
ReturnWithoutWaiting ==
    /\ main.pc = "result"
    /\ main.i > Len(config)
    /\ main' = [main EXCEPT !.pc = "returned"]
    /\ UNCHANGED <<disk, conn, in_transaction, task, user>>
    /\ Frame

\* ThreadPoolExecutor.__exit__: shutdown(wait=True), then return RefreshResult
Return ==
    /\ main.pc = "result"
    /\ main.i > Len(config)
    /\ \A i \in Tasks : Finished(i)
    /\ main' = [main EXCEPT !.pc = "returned"]
    /\ UNCHANGED <<disk, conn, in_transaction, task, user>>
    /\ Frame

Returned == main.pc = "returned"

-----------------------------------------------------------------------------
(* The user, through the query surface *)

ReviewStatuses == {"NEW", "READ", "IGNORED"}

\* Database.update_review_status: the UPDATE and its commit
UpdateReviewStatus(job_id, status) ==
    /\ user.calls < MaxReviews
    /\ conn' = update_review_status(conn, job_id, status)
    /\ disk' = conn'
    /\ in_transaction' = FALSE
    /\ LET rows == {p \in conn.job_postings : p.id = job_id}
       IN  user' = IF rows = {}
                   THEN [user EXCEPT !.calls = @ + 1]
                   ELSE [calls |-> user.calls + 1,
                         last |-> [user.last EXCEPT ![job_id] = status],
                         was |-> [user.was EXCEPT
                                    ![job_id] = fetchone(rows).content]]
    /\ UNCHANGED <<task, main>>
    /\ Frame

Review == \E job_id \in 1..MaxJobId, status \in ReviewStatuses :
              UpdateReviewStatus(job_id, status)

-----------------------------------------------------------------------------

Refresh == \E i \in Tasks : TaskStep(i)

Collect == ResultReturned \/ ResultTimeout \/ ResultRaised \/ ErrorCommit \/ Return

Next == Refresh \/ Collect

Spec == Init /\ [][Next]_vars

(* Refresh cycles interleaved with the user's review updates *)

MaxReviewFeedLen == 1

InitReview == InitWith(Companies, Feeds(MaxReviewFeedLen),
                       PriorStores(Companies, 1))

NextReview == Refresh \/ Collect \/ Review

SpecReview == InitReview /\ [][NextReview]_vars

-----------------------------------------------------------------------------
(* The scoring pass after refresh_all: Database.insert_evaluation *)

\* SELECT id FROM evaluations WHERE job_id = ? ORDER BY created_at DESC LIMIT n:
\* every result the ordering allows; rows with equal created_at come in any order
NewestByCreatedAt(rows, n) ==
    {keep \in SUBSET rows :
        /\ Cardinality(keep) = MinOf(n, Cardinality(rows))
        /\ \A k \in keep, d \in rows \ keep : k.created_at >= d.created_at}

\* As _determine_action, but with the thresholds excluded
determine_action_above(score) ==
    IF score > 75 THEN "APPLY"
    ELSE IF score > 60 THEN "WATCH"
    ELSE "SKIP"

\* As determine_action, but a posting that has stored evaluations is skipped
determine_action_unless_stored(score) ==
    IF evaluations # {} THEN "SKIP"
    ELSE IF score >= 75 THEN "APPLY"
    ELSE IF score >= 60 THEN "WATCH"
    ELSE "SKIP"

\* As determine_action, but APPLY starts at 70
determine_action_apply_from_70(score) ==
    IF score >= 70 THEN "APPLY"
    ELSE IF score >= 60 THEN "WATCH"
    ELSE "SKIP"

\* ScoringEngine._determine_action
determine_action(score) ==
    IF score >= 75 THEN "APPLY"
    ELSE IF score >= 60 THEN "WATCH"
    ELSE "SKIP"

\* The Evaluation that score_job returns, as far as the store's queries read it
Evaluation(job_id, fit_score) ==
    [job_id |-> job_id, fit_score |-> fit_score,
     action |-> determine_action(fit_score)]

\* The INSERT; created_at is left to the column's default
InsertEvaluationRow(rows, evaluation) ==
    rows \cup {[id |-> lastrowid(rows), job_id |-> evaluation.job_id,
                fit_score |-> evaluation.fit_score,
                action |-> evaluation.action,
                created_at |-> DefaultCreatedAt,
                nth |-> inserted[evaluation.job_id] + 1]}

\* As PruneEvaluations, but without the job_id = ? condition
PruneEvaluationsOfAnyJob(rows, job_id, keep) ==
    {e \in rows : e.id \in {k.id : k \in keep}}

\* DELETE FROM evaluations WHERE job_id = ? AND id NOT IN (keep)
PruneEvaluations(rows, job_id, keep) ==
    {e \in rows : ~(e.job_id = job_id /\ e.id \notin {k.id : k \in keep})}

RECURSIVE Sum(_, _)
Sum(f, n) == IF n = 0 THEN 0 ELSE f[n] + Sum(f, n - 1)

insert_evaluation(evaluation) ==
    /\ Sum(inserted, MaxJobId) < MaxEvals
    /\ LET job_id == evaluation.job_id
           rows == InsertEvaluationRow(evaluations, evaluation)
       IN  /\ \E keep \in NewestByCreatedAt({e \in rows : e.job_id = job_id},
                                            KeepEvaluations) :
                  evaluations' = PruneEvaluations(rows, job_id, keep)
           /\ inserted' = [inserted EXCEPT ![job_id] = @ + 1]
    /\ UNCHANGED <<config, feed, disk, conn, in_transaction, task, main,
                   disk0, user, now, scorer>>

\* Fit scores on both sides of the two action thresholds
FitScores == {59, 60, 75}

Score == \E job_id \in 1..MaxJobId, fit_score \in FitScores :
             insert_evaluation(Evaluation(job_id, fit_score))

\* A second passes
Tick ==
    /\ now < MaxNow
    /\ now' = now + 1
    /\ UNCHANGED <<config, feed, disk, conn, in_transaction, task, main,
                   disk0, user, evaluations, inserted, scorer>>

\* date_found is left to the column's default when the posting is inserted:
\* the postings were first seen in the same second, or a second apart
Found(db, same) ==
    [db EXCEPT !.job_postings =
        {[id |-> p.id, company_id |-> p.company_id,
          external_id |-> p.external_id, content |-> p.content,
          active |-> p.active, user_review_status |-> p.user_review_status,
          date_found |-> IF same THEN 0 ELSE p.id] : p \in @}]

\* The stores left by two refresh cycles of one source
EvalStores ==
    {Found(db, same) : db \in PriorStores(<<"A">>, 2), same \in BOOLEAN}

InitEval ==
    /\ now = 0
    /\ config = <<>>
    /\ feed = [n \in Names |-> [raises |-> FALSE, jobs |-> <<>>]]
    /\ disk \in EvalStores
    /\ conn = disk
    /\ in_transaction = FALSE
    /\ task = <<>>
    /\ main = [InitMain EXCEPT !.pc = "returned"]
    /\ disk0 = disk
    /\ user = InitUser
    /\ evaluations = {}
    /\ inserted = NoneInserted
    /\ scorer = NoScorer

NextEval == Score \/ Tick

SpecEval == InitEval /\ [][NextEval]_vars

-----------------------------------------------------------------------------
(* Database.get_active_jobs_with_evaluations *)

default_limit == 50

\* e.fit_score of a posting without evaluation: SQL NULL, which sqlite orders
\* below every number
NullScore == 0 - 1

\* SELECT job_id, MAX(created_at) ... GROUP BY job_id, joined back to evaluations
LatestEvaluations(rows) ==
    {e1 \in rows :
        e1.created_at = SetMax({e.created_at : e \in {x \in rows : x.job_id = e1.job_id}})}

\* A result row; e_id is the evaluation's row id, which the query does not
\* select: two rows of one posting may differ in nothing else
ResultRow(j, c, fit_score, action, e_id) ==
    [id |-> j.id, company_name |-> c.name,
     user_review_status |-> j.user_review_status, date_found |-> j.date_found,
     fit_score |-> fit_score, action |-> action, e_id |-> e_id]

\* FROM job_postings j JOIN companies c LEFT JOIN (...) e WHERE j.active = TRUE
JoinedRows(db, rows) ==
    UNION {LET e == {x \in LatestEvaluations(rows) : x.job_id = jc[1].id}
           IN  IF e = {}
               THEN {ResultRow(jc[1], jc[2], NullScore, NULL, NoneId)}
               ELSE {ResultRow(jc[1], jc[2], x.fit_score, x.action, x.id) : x \in e} :
           jc \in {y \in db.job_postings \X db.companies :
                      y[1].company_id = y[2].id /\ y[1].active}}

\* AND e.action = 'APPLY' / AND e.action IN ('APPLY', 'WATCH') / nothing
FilteredRows(db, rows, min_action) ==
    {r \in JoinedRows(db, rows) :
        IF min_action = "APPLY" THEN r.action = "APPLY"
        ELSE IF min_action = "WATCH" THEN r.action \in {"APPLY", "WATCH"}
        ELSE TRUE}

\* ORDER BY e.fit_score DESC, j.date_found DESC: a sorts before b
SortsBefore(a, b) ==
    IF a.fit_score # b.fit_score
    THEN a.fit_score > b.fit_score
    ELSE a.date_found > b.date_found

\* Every order of the rows that the ORDER BY allows
RECURSIVE Ordered(_)
Ordered(rows) ==
    IF rows = {} THEN {<<>>}
    ELSE UNION {{<<r>> \o s : s \in Ordered(rows \ {r})} :
                   r \in {x \in rows : \A y \in rows : ~SortsBefore(y, x)}}

\* LIMIT ? OFFSET ?
Page(s, limit, offset) ==
    SubSeq(s, offset + 1, MinOf(offset + limit, Len(s)))

\* The lists the query may return
get_active_jobs_with_evaluations(min_action, limit, offset) ==
    {Page(s, limit, offset) :
        s \in Ordered(FilteredRows(conn, evaluations, min_action))}

-----------------------------------------------------------------------------
(* One source whose fetch is longer than one chunk of mark_missing_jobs_inactive *)

MaxOver == 1     \* postings fetched beyond chunk_size

LongFeed == [raises |-> FALSE,
             jobs |-> JobsOf([j \in 1..(chunk_size + MaxOver) |-> j], NewContent)]

InitChunk ==
    /\ now = 0
    /\ config = <<"A">>
    /\ feed \in [Names -> {LongFeed}]
    /\ disk = EmptyDb
    /\ conn = disk
    /\ in_transaction = FALSE
    /\ task = [i \in 1..1 |-> InitTask]
    /\ main = InitMain
    /\ disk0 = disk
    /\ user = InitUser
    /\ evaluations = {}
    /\ inserted = NoneInserted
    /\ scorer = NoScorer

\* The steps of a task that meets no failure
TaskStepOk(i) ==
    \/ Start(i)
    \/ UpsertCompanyExecute(i)
    \/ UpsertCompanyCommit(i)
    \/ Fetch(i)
    \/ Begin(i)
    \/ UpsertJobExecute(i)
    \/ UpsertJobCommit(i)
    \/ MarkMissingExecute(i)
    \/ MarkMissingCommit(i)
    \/ TransactionCommit(i)
    \/ StatusExecute(i)
    \/ StatusCommit(i)

NextChunk == (\E i \in Tasks : TaskStepOk(i)) \/ ResultReturned \/ Return

SpecChunk == InitChunk /\ [][NextChunk]_vars

-----------------------------------------------------------------------------
(* More configured sources than pool workers.  The companies are known from *)
(* an earlier cycle; in this cycle every adapter lookup raises, and every   *)
(* task finishes within the budget.                                         *)

MaxSources == 5      \* configured sources, one more than max_workers

PoolNames == <<"A", "B", "C", "D", "E", "F", "G">>

PoolCompanies(n) == SubSeq(PoolNames, 1, n)

RaisingFeed == [raises |-> TRUE, jobs |-> <<>>]

InitPool ==
    /\ now = 0
    /\ config \in {PoolCompanies(n) : n \in 0..MaxSources}
    /\ feed = [n \in Range(PoolNames) |-> RaisingFeed]
    /\ disk = PriorCycle(EmptyDb, PoolCompanies(MaxSources), <<>>, 1)
    /\ conn = disk
    /\ in_transaction = FALSE
    /\ task = [i \in 1..Len(config) |-> InitTask]
    /\ main = InitMain
    /\ disk0 = disk
    /\ user = InitUser
    /\ evaluations = {}
    /\ inserted = NoneInserted
    /\ scorer = NoScorer

\* The steps of a task whose adapter lookup raises
TaskStepRaising(i) ==
    \/ Start(i)
    \/ UpsertCompanyExecute(i)
    \/ UpsertCompanyCommit(i)
    \/ Fetch(i)
    \/ StatusExecute(i)
    \/ StatusCommit(i)

NextPool ==
    \/ \E i \in Tasks : TaskStepRaising(i)
    \/ ResultRaised
    \/ ErrorCommit
    \/ Return

\* Threads that can run do run
SpecPool == InitPool /\ [][NextPool]_vars /\ WF_vars(NextPool)

-----------------------------------------------------------------------------
(* An adapter whose fetch_jobs never returns *)

MaxHangFeedLen == 1  \* postings in the feed of a source that returns

HangingFeed == [raises |-> FALSE, jobs |-> <<>>, hangs |-> TRUE]

\* The feeds of a cycle in which at most one source hangs
HangFeeds ==
    {f \in [Names -> {HangingFeed}
                     \cup {[raises |-> r.raises, jobs |-> r.jobs,
                            hangs |-> FALSE] : r \in Feeds(MaxHangFeedLen)}] :
        Cardinality({n \in Names : f[n].hangs}) <= 1}

InitHang ==
    /\ now = 0
    /\ config = Companies
    /\ feed \in HangFeeds
    /\ disk \in PriorStores(Companies, 1)
    /\ conn = disk
    /\ in_transaction = FALSE
    /\ task = [i \in 1..Len(config) |-> InitTask]
    /\ main = InitMain
    /\ disk0 = disk
    /\ user = InitUser
    /\ evaluations = {}
    /\ inserted = NoneInserted
    /\ scorer = NoScorer

Hangs(i) == feed[config[i]].hangs

\* A task takes its steps, except that adapter.fetch_jobs() of a hanging
\* source is never left
HangStep(i) ==
    /\ ~(task[i].pc = "fetch" /\ Hangs(i))
    /\ TaskStep(i)

NextHang == (\E i \in Tasks : HangStep(i)) \/ Collect

\* Threads that can run do run
SpecHang == InitHang /\ [][NextHang]_vars /\ WF_vars(NextHang)

-----------------------------------------------------------------------------
(* One source configured twice, and feeds that repeat an external id.  The  *)
(* SELECT and the INSERT or UPDATE of an upsert are separate statements:    *)
(* another thread's statements can come between them.                       *)

MaxDupFeedLen == 2   \* postings in a feed that may repeat an external id

IntegrityMsg == "UNIQUE constraint failed"

\* Feeds in which an external id may occur more than once; the first
\* posting has external id 1
DupFeeds ==
    {[raises |-> FALSE, jobs |-> JobsOf(ids, NewContent)] :
        ids \in {s \in UNION {[1..m -> 1..MaxExt] : m \in 1..MaxDupFeedLen} :
                    s[1] = 1}}

\* The configurations: one source twice, or two sources
DupConfigs == {<<"A", "A">>, <<"A", "B">>}

\* A task, with the row its last SELECT returned
DupTask == InitTask @@ [existing |-> NoneId]

InitDup ==
    /\ now = 0
    /\ config \in DupConfigs
    /\ feed \in [Names -> DupFeeds]
    /\ disk \in {EmptyDb, PriorCycle(EmptyDb, <<"A">>, <<1>>, 1)}
    /\ conn = disk
    /\ in_transaction = FALSE
    /\ task = [i \in 1..Len(config) |-> DupTask]
    /\ main = InitMain
    /\ disk0 = disk
    /\ user = InitUser
    /\ evaluations = {}
    /\ inserted = NoneInserted
    /\ scorer = NoScorer

\* UNIQUE (name) of companies: the INSERT would repeat a name
CompanyNameTaken(db, name) == \E c \in db.companies : c.name = name

\* UNIQUE (company_id, external_id) of job_postings: the INSERT would repeat
\* an identity
IdentityTaken(db, company_id, external_id) ==
    \E p \in db.job_postings :
        p.company_id = company_id /\ p.external_id = external_id

\* upsert_company: SELECT id FROM companies WHERE name = ?
SelectCompany(i) ==
    /\ task[i].pc = "upsert_company"
    /\ LET existing == {c \in conn.companies : c.name = config[i]}
       IN  task' = [task EXCEPT
               ![i].pc = "upsert_company_write",
               ![i].existing = IF existing = {} THEN NoneId
                               ELSE fetchone(existing).id]
    /\ UNCHANGED <<disk, conn, in_transaction, main, user>>
    /\ Frame

\* upsert_company: the UPDATE of the row found, or the INSERT, which fails
\* when another task has inserted the name meanwhile; the exception leaves
\* _refresh_company before its try block
WriteCompany(i) ==
    /\ task[i].pc = "upsert_company_write"
    /\ IF task[i].existing # NoneId
       THEN /\ Execute(conn)
            /\ task' = [task EXCEPT ![i].pc = "upsert_company_commit",
                                    ![i].company_id = task[i].existing]
       ELSE IF CompanyNameTaken(conn, config[i])
       THEN /\ task' = [task EXCEPT ![i].pc = "raised",
                                    ![i].error = IntegrityMsg]
            /\ UNCHANGED <<disk, conn, in_transaction>>
       ELSE LET uc == upsert_company(conn, config[i])
            IN  /\ Execute(uc.db)
                /\ task' = [task EXCEPT ![i].pc = "upsert_company_commit",
                                        ![i].company_id = uc.id]
    /\ UNCHANGED <<main, user>>
    /\ Frame

\* upsert_job_posting: SELECT id, user_review_status FROM job_postings
\* WHERE company_id = ? AND external_id = ?
SelectJob(i) ==
    /\ task[i].pc = "upsert"
    /\ LET raw_job == RawJobs(i)[task[i].k]
           existing == {p \in conn.job_postings :
                           /\ p.company_id = task[i].company_id
                           /\ p.external_id = raw_job.external_id}
       IN  task' = [task EXCEPT
               ![i].pc = "upsert_write",
               ![i].existing = IF existing = {} THEN NoneId
                               ELSE fetchone(existing).id]
    /\ UNCHANGED <<disk, conn, in_transaction, main, user>>
    /\ Frame

\* As InsertJob, but the table has no UNIQUE (company_id, external_id)
InsertJobUnconstrained(i) ==
    LET raw_job == RawJobs(i)[task[i].k]
        id == lastrowid(conn.job_postings)
    IN  /\ Execute([conn EXCEPT !.job_postings = @ \cup
                      {[id |-> id, company_id |-> task[i].company_id,
                        external_id |-> raw_job.external_id,
                        content |-> raw_job.content,
                        active |-> DefaultActive,
                        user_review_status |-> DefaultReviewStatus,
                        date_found |-> DefaultCreatedAt]}])
        /\ task' = [task EXCEPT
              ![i].pc = "upsert_commit",
              ![i].touched_job_ids = Append(@, id),
              ![i].seen_ids = Append(@, raw_job.external_id),
              ![i].new_count = @ + 1]

\* upsert_job_posting: the INSERT; it fails when another task has inserted
\* the identity meanwhile, and the exception leaves the with-block
InsertJob(i) ==
    LET raw_job == RawJobs(i)[task[i].k]
        id == lastrowid(conn.job_postings)
    IN  IF IdentityTaken(conn, task[i].company_id, raw_job.external_id)
        THEN /\ task' = [task EXCEPT ![i].pc = "rollback",
                                     ![i].error = IntegrityMsg]
             /\ UNCHANGED <<disk, conn, in_transaction>>
        ELSE /\ Execute([conn EXCEPT !.job_postings = @ \cup
                           {[id |-> id, company_id |-> task[i].company_id,
                             external_id |-> raw_job.external_id,
                             content |-> raw_job.content,
                             active |-> DefaultActive,
                             user_review_status |-> DefaultReviewStatus,
                             date_found |-> DefaultCreatedAt]}])
             /\ task' = [task EXCEPT
                   ![i].pc = "upsert_commit",
                   ![i].touched_job_ids = Append(@, id),
                   ![i].seen_ids = Append(@, raw_job.external_id),
                   ![i].new_count = @ + 1]

\* upsert_job_posting: UPDATE job_postings SET ... WHERE id = ?
UpdateJob(i) ==
    LET raw_job == RawJobs(i)[task[i].k]
    IN  /\ Execute([conn EXCEPT !.job_postings =
                      {IF p.id = task[i].existing
                       THEN [p EXCEPT !.content = raw_job.content,
                                      !.active = TRUE]
                       ELSE p : p \in @}])
        /\ task' = [task EXCEPT
              ![i].pc = "upsert_commit",
              ![i].touched_job_ids = Append(@, task[i].existing),
              ![i].seen_ids = Append(@, raw_job.external_id),
              ![i].updated_count = @ + 1]

WriteJob(i) ==
    /\ task[i].pc = "upsert_write"
    /\ IF task[i].existing # NoneId THEN UpdateJob(i) ELSE InsertJob(i)
    /\ UNCHANGED <<main, user>>
    /\ Frame

DupStep(i) ==
    \/ Start(i)
    \/ SelectCompany(i)
    \/ WriteCompany(i)
    \/ UpsertCompanyCommit(i)
    \/ Fetch(i)
    \/ Begin(i)
    \/ TransactionRollback(i)
    \/ SelectJob(i)
    \/ WriteJob(i)
    \/ UpsertJobCommit(i)
    \/ MarkMissingExecute(i)
    \/ MarkMissingCommit(i)
    \/ TransactionCommit(i)
    \/ StatusExecute(i)
    \/ StatusCommit(i)

NextDup == (\E i \in Tasks : DupStep(i)) \/ Collect

SpecDup == InitDup /\ [][NextDup]_vars

-----------------------------------------------------------------------------
(* One source alone, whose feed may repeat an external id *)

InitRepeat ==
    InitWith(<<"A">>, DupFeeds \cup {RaisingFeed}, InitStores(<<"A">>))

SpecRepeat == InitRepeat /\ [][Next]_vars

-----------------------------------------------------------------------------
(* A refresh cycle a second after the postings in the store were first     *)
(* seen, the user's reviews, and the scoring pass that follows the cycle    *)

InitKeep ==
    /\ now = 1
    /\ config = Companies
    /\ feed \in [Names -> Feeds(MaxReviewFeedLen)]
    /\ disk \in {Found(db, TRUE) : db \in PriorStores(Companies, 1)}
    /\ conn = disk
    /\ in_transaction = FALSE
    /\ task = [i \in 1..Len(config) |-> InitTask]
    /\ main = InitMain
    /\ disk0 = disk
    /\ user = InitUser
    /\ evaluations = {}
    /\ inserted = NoneInserted
    /\ scorer = NoScorer

\* The scoring pass stores an evaluation of posting 1 once refresh_all has
\* returned
ScoreAfterRefresh ==
    /\ Returned
    /\ insert_evaluation(Evaluation(1, 75))

NextKeep == Refresh \/ Collect \/ Review \/ ScoreAfterRefresh

SpecKeep == InitKeep /\ [][NextKeep]_vars

-----------------------------------------------------------------------------
(* A refresh cycle over a store in which earlier cycles have left inactive  *)
(* postings that the user has read                                          *)

\* The user has read the postings that are inactive
ReadInactive(db) ==
    [db EXCEPT !.job_postings =
        {IF p.active THEN p ELSE [p EXCEPT !.user_review_status = "READ"] :
            p \in @}]

InitBack == InitWith(Companies, Feeds(MaxFeedLen),
                     {ReadInactive(db) : db \in PriorStores(Companies, 2)})

SpecBack == InitBack /\ [][Next]_vars

-----------------------------------------------------------------------------
(* Wall-clock time.  "now" counts seconds; an adapter's fetch_jobs returns  *)
(* an empty list after the number of seconds its feed names, every other    *)
(* step takes no time, and future.result(timeout) raises once the timeout   *)
(* has elapsed since it was called.                                         *)

MaxClock == 61       \* the clock stops here

Durations == {1, 31, 45}

TimedFeeds == {[raises |-> FALSE, jobs |-> <<>>, seconds |-> d] : d \in Durations}

InitTime ==
    /\ now = 0
    /\ config = Companies
    /\ feed \in [Names -> TimedFeeds]
    /\ disk = EmptyDb
    /\ conn = disk
    /\ in_transaction = FALSE
    /\ task = [i \in 1..Len(config) |-> InitTask]
    /\ main = InitMain
    /\ disk0 = disk
    /\ user = InitUser
    /\ evaluations = {}
    /\ inserted = NoneInserted
    /\ scorer = NoScorer

\* Seconds since the task was started
Elapsed(i) == now - task[i].started

TimedFetch(i) ==
    /\ Elapsed(i) >= feed[config[i]].seconds
    /\ Fetch(i)

TimedTaskStep(i) ==
    \/ Start(i)
    \/ UpsertCompanyExecute(i)
    \/ UpsertCompanyCommit(i)
    \/ TimedFetch(i)
    \/ Begin(i)
    \/ TransactionRollback(i)
    \/ MarkMissingExecute(i)
    \/ MarkMissingCommit(i)
    \/ TransactionCommit(i)
    \/ StatusExecute(i)
    \/ StatusCommit(i)

\* future.result(timeout=self.timeout) has waited for the whole timeout
TimedResultTimeout ==
    /\ now - main.since >= timeout
    /\ ResultTimeout

\* Some thread has a step to take that needs no time to pass
Busy ==
    \/ \E i \in Tasks :
          /\ ~Finished(i)
          /\ task[i].pc = "fetch" => Elapsed(i) >= feed[config[i]].seconds
    \/ main.pc = "error_commit"
    \/ Waiting /\ (Finished(main.i) \/ now - main.since >= timeout)
    \/ main.pc = "result" /\ main.i > Len(config)

\* A second passes while every thread waits
Elapse ==
    /\ now < MaxClock
    /\ ~Busy
    /\ ~Returned
    /\ now' = now + 1
    /\ UNCHANGED <<config, feed, disk, conn, in_transaction, task, main,
                   disk0, user, evaluations, inserted, scorer>>

NextTime ==
    \/ \E i \in Tasks : TimedTaskStep(i)
    \/ ResultReturned
    \/ TimedResultTimeout
    \/ ResultRaised
    \/ ErrorCommit
    \/ Return
    \/ Elapse

SpecTime == InitTime /\ [][NextTime]_vars

-----------------------------------------------------------------------------
(* A cycle whose fetches are those of the previous, successful cycle *)

MaxAgainFeedLen == 2     \* longest fetch of the repeated cycle

SameFeeds == {[raises |-> FALSE, jobs |-> JobsOf(ids, NewContent)] :
                 ids \in ExtIdLists(MaxAgainFeedLen)}

\* The store after every source of cfg was refreshed, one after the other
RECURSIVE Previous(_, _, _, _)
Previous(db, cfg, feeds, i) ==
    IF i > Len(cfg) THEN db
    ELSE Previous(RefreshAlone(db, cfg[i], feeds[cfg[i]].jobs), cfg, feeds, i + 1)

\* ... and after the user has or has not marked posting 1 as READ
InitAgain ==
    /\ now = 0
    /\ config = Companies
    /\ feed \in [Names -> SameFeeds]
    /\ disk \in {Previous(EmptyDb, Companies, feed, 1),
                 update_review_status(Previous(EmptyDb, Companies, feed, 1),
                                      1, "READ")}
    /\ conn = disk
    /\ in_transaction = FALSE
    /\ task = [i \in 1..Len(config) |-> InitTask]
    /\ main = InitMain
    /\ disk0 = disk
    /\ user = InitUser
    /\ evaluations = {}
    /\ inserted = NoneInserted
    /\ scorer = NoScorer

SpecAgain == InitAgain /\ [][Next]_vars

\* Database.get_jobs_by_ids for one id: the columns of the row that
\* ScoringEngine.score_job reads, with the company's name joined in
get_jobs_by_ids(db, job_id) ==
    {[id |-> p.id, content |-> p.content, company_name |-> c.name] :
        <<p, c>> \in {pc \in db.job_postings \X db.companies :
                        pc[1].id = job_id /\ pc[1].company_id = pc[2].id}}

-----------------------------------------------------------------------------
(* ScoringEngine.score_job, from the extracted signals on *)

MaxWeight == 100     \* greatest configured weight
MaxScore == 100      \* greatest score handed to _determine_action

\* config.ScoringWeights with its defaults
DefaultWeights ==
    [seniority |-> 30, pnl |-> 20, transformation |-> 20, industry |-> 20,
     geo |-> 10, banned_penalty |-> 10]

\* Configurations: each weight is 0, its default, or the greatest weight
WeightConfigs ==
    [seniority : {0, DefaultWeights.seniority, MaxWeight},
     pnl : {0, DefaultWeights.pnl, MaxWeight},
     transformation : {0, DefaultWeights.transformation, MaxWeight},
     industry : {0, DefaultWeights.industry, MaxWeight},
     geo : {0, DefaultWeights.geo, MaxWeight},
     banned_penalty : {0, DefaultWeights.banned_penalty, MaxWeight}]

\* The scores SignalExtractor can return
SeniorityScores == {0, 20, 25, 30}
PnlScores == {0, 15, 20}
TransformationScores == {0, 20}
IndustryScores == {0, 10, 20}
GeoScores == {0, 10}

\* Optional[str]: None is the empty sequence, a string s is <<s>>.  A string
\* is the sequence of its pieces, concatenated by \o
None == <<>>
Some(s) == <<s>>

\* bool(x) of an Optional[str]: None and "" are false
Truthy(x) == x # None /\ x[1] # <<>>

\* The job dictionary handed to score_job
Job(title, description, location, partial_description) ==
    [id |-> 1, title |-> title, description |-> description,
     location |-> location, company_name |-> "A",
     partial_description |-> partial_description]

\* f"Location: {location}"
LocationEvidence(location) == <<"Location: ">> \o location

\* A title and a location the signals below are taken to come from
SomeTitle == <<"Plant Manager">>
SomeLocation == <<"Pune">>

\* extract_geo_signals sets its evidence exactly when a preferred or a
\* banned geography matched
Signals ==
    {s \in [seniority : SeniorityScores, pnl : PnlScores,
            transformation : TransformationScores, industry : IndustryScores,
            geo : GeoScores, is_banned : BOOLEAN,
            geo_evidence : {None, Some(LocationEvidence(SomeLocation))}] :
        (s.geo_evidence # None) <=> (s.geo = 10 \/ s.is_banned)}

\* As TotalSixtieths, but a banned geography costs nothing
TotalSixtiethsNoPenalty(s, w) ==
    2 * s.seniority * w.seniority
    + 3 * s.pnl * w.pnl
    + 3 * s.transformation * w.transformation
    + 3 * s.industry * w.industry
    + 6 * s.geo * w.geo

\* total_score before int(), in sixtieths: 60 is the least common multiple
\* of the divisors 30, 20 and 10
TotalSixtieths(s, w) ==
    2 * s.seniority * w.seniority
    + 3 * s.pnl * w.pnl
    + 3 * s.transformation * w.transformation
    + 3 * s.industry * w.industry
    + 6 * s.geo * w.geo
    - (IF s.is_banned THEN 60 * w.banned_penalty ELSE 0)

\* int(n / d) of Python: truncation towards zero
IntTrunc(n, d) == IF n >= 0 THEN n \div d ELSE 0 - ((0 - n) \div d)

\* As Clamp, but without the clamping
NoClamp(x) == x

\* max(0, min(100, x))
Clamp(x) == IF x < 0 THEN 0 ELSE IF x > 100 THEN 100 ELSE x

\* An element of a list, if the condition holds
If(condition, x) == IF condition THEN <<x>> ELSE <<>>

\* As generate_concerns, but the incomplete description is reported first
generate_concerns_partial_first(job, s) ==
    If(job.partial_description,
       [type |-> "Incomplete description",
        evidence |-> <<"Full job description text not available">>])
    \o If(s.seniority < 20,
          [type |-> "Below target seniority",
           evidence |-> <<"Title: ">> \o job.title])
    \o If(s.pnl = 0,
          [type |-> "No P&L ownership",
           evidence |-> <<"No mention of P&L, profitability, or budget control">>])
    \o If(s.transformation = 0,
          [type |-> "No transformation mandate",
           evidence |-> <<"No mention of digital transformation or modernization">>])
    \o If(s.industry < 10,
          [type |-> "No industry match",
           evidence |-> <<"No mention of industrial IoT, manufacturing, or hardware">>])
    \o If(s.is_banned,
          [type |-> "Banned geography",
           evidence |-> IF Truthy(s.geo_evidence) THEN s.geo_evidence[1]
                        ELSE LocationEvidence(job.location)])

\* _generate_concerns: the list of concern dictionaries
generate_concerns(job, s) ==
    If(s.seniority < 20,
       [type |-> "Below target seniority",
        evidence |-> <<"Title: ">> \o job.title])
    \o If(s.pnl = 0,
          [type |-> "No P&L ownership",
           evidence |-> <<"No mention of P&L, profitability, or budget control">>])
    \o If(s.transformation = 0,
          [type |-> "No transformation mandate",
           evidence |-> <<"No mention of digital transformation or modernization">>])
    \o If(s.industry < 10,
          [type |-> "No industry match",
           evidence |-> <<"No mention of industrial IoT, manufacturing, or hardware">>])
    \o If(s.is_banned,
          [type |-> "Banned geography",
           evidence |-> IF Truthy(s.geo_evidence) THEN s.geo_evidence[1]
                        ELSE LocationEvidence(job.location)])
    \o If(job.partial_description,
          [type |-> "Incomplete description",
           evidence |-> <<"Full job description text not available">>])

\* ", ".join(list)
RECURSIVE Join(_)
Join(list) ==
    IF Len(list) <= 1 THEN list
    ELSE <<Head(list), ", ">> \o Join(Tail(list))

\* list[:n]
Slice(list, n) == SubSeq(list, 1, IF Len(list) < n THEN Len(list) ELSE n)

\* The strengths of _generate_summary, in the order they are appended
Strengths(s) ==
    If(s.pnl >= 15, "P&L ownership")
    \o If(s.transformation >= 20, "transformation mandate")
    \o If(s.industry >= 20, "industry match")
    \o If(s.geo >= 10, "geographic scope")
    \o If(s.seniority >= 25, "senior level")

\* As TopStrengths, but every strength is listed
AllStrengths(s) ==
    IF Strengths(s) # <<>> THEN Join(Strengths(s)) ELSE <<"none">>

\* ", ".join(strengths[:2]) if strengths else "none"
TopStrengths(s) ==
    IF Strengths(s) # <<>> THEN Join(Slice(Strengths(s), 2)) ELSE <<"none">>

\* As TopConcern, but P&L is looked at before seniority
TopConcernPnlFirst(s) ==
    IF s.pnl = 0 THEN "no P&L ownership"
    ELSE IF s.seniority < 20 THEN "below target seniority"
    ELSE IF s.transformation = 0 THEN "no transformation mandate"
    ELSE IF s.industry < 10 THEN "no industry match"
    ELSE IF s.is_banned THEN "banned geography"
    ELSE "none"

\* The if/elif chain of _generate_summary
TopConcern(s) ==
    IF s.seniority < 20 THEN "below target seniority"
    ELSE IF s.pnl = 0 THEN "no P&L ownership"
    ELSE IF s.transformation = 0 THEN "no transformation mandate"
    ELSE IF s.industry < 10 THEN "no industry match"
    ELSE IF s.is_banned THEN "banned geography"
    ELSE "none"

\* _generate_summary: the slots of the returned template
\* "Role: {title} at {company_name} in {location}. Fit: {top_strengths}.
\*  Gap: {top_concern}. Action: {action}. Score: {score}."
generate_summary(job, s, action, score) ==
    [role |-> job.title, at |-> job.company_name, in |-> job.location,
     fit |-> TopStrengths(s), gap |-> TopConcern(s),
     action |-> action, score |-> score]

score_job(job, s, w) ==
    LET total_score == Clamp(IntTrunc(TotalSixtieths(s, w), 60))
        action == determine_action(total_score)
    IN  [job_id |-> job.id,
         fit_score |-> total_score,
         seniority_score |-> s.seniority,
         pnl_score |-> s.pnl,
         transformation_score |-> s.transformation,
         industry_score |-> s.industry,
         geo_score |-> s.geo,
         action |-> action,
         summary |-> generate_summary(job, s, action, total_score),
         concerns |-> generate_concerns(job, s)]

InitScore ==
    /\ now = 0
    /\ config = <<>>
    /\ feed = [n \in Names |-> [raises |-> FALSE, jobs |-> <<>>]]
    /\ disk = EmptyDb
    /\ conn = disk
    /\ in_transaction = FALSE
    /\ task = <<>>
    /\ main = [InitMain EXCEPT !.pc = "returned"]
    /\ disk0 = disk
    /\ user = InitUser
    /\ evaluations = {}
    /\ inserted = NoneInserted
    /\ scorer \in [weights : WeightConfigs, signals : Signals,
                    job : {Job(SomeTitle, <<>>, SomeLocation, FALSE)},
                    returned : {<<>>}]

ScoreJob ==
    /\ scorer.returned = <<>>
    /\ scorer' = [scorer EXCEPT
          !.returned = <<score_job(scorer.job, scorer.signals,
                                   scorer.weights)>>]
    /\ UNCHANGED <<config, feed, disk, conn, in_transaction, task, main,
                   disk0, user, evaluations, inserted, now>>

NextScore == ScoreJob

SpecScore == InitScore /\ [][NextScore]_vars

(* score_job under the default weights, complete and partial descriptions *)

InitConcerns ==
    /\ now = 0
    /\ config = <<>>
    /\ feed = [n \in Names |-> [raises |-> FALSE, jobs |-> <<>>]]
    /\ disk = EmptyDb
    /\ conn = disk
    /\ in_transaction = FALSE
    /\ task = <<>>
    /\ main = [InitMain EXCEPT !.pc = "returned"]
    /\ disk0 = disk
    /\ user = InitUser
    /\ evaluations = {}
    /\ inserted = NoneInserted
    /\ scorer \in [weights : {DefaultWeights}, signals : Signals,
                    job : {Job(SomeTitle, <<>>, SomeLocation, partial) :
                              partial \in BOOLEAN},
                    returned : {<<>>}]

SpecConcerns == InitConcerns /\ [][NextScore]_vars

(* _determine_action applied to every score, under several configurations *)

InitAction ==
    /\ now = 0
    /\ config = <<>>
    /\ feed = [n \in Names |-> [raises |-> FALSE, jobs |-> <<>>]]
    /\ disk = EmptyDb
    /\ conn = disk
    /\ in_transaction = FALSE
    /\ task = <<>>
    /\ main = [InitMain EXCEPT !.pc = "returned"]
    /\ disk0 = disk
    /\ user = InitUser
    /\ evaluations = {}
    /\ inserted = NoneInserted
    /\ scorer \in [weights : {DefaultWeights,
                               [DefaultWeights EXCEPT !.banned_penalty = 0],
                               [w \in DOMAIN DefaultWeights |-> MaxWeight]},
                    score : 0..MaxScore,
                    returned : {<<>>}]

DetermineAction ==
    /\ scorer.returned = <<>>
    /\ scorer' = [scorer EXCEPT !.returned = <<determine_action(scorer.score)>>]
    /\ UNCHANGED <<config, feed, disk, conn, in_transaction, task, main,
                   disk0, user, evaluations, inserted, now>>

NextAction == DetermineAction

SpecAction == InitAction /\ [][NextAction]_vars

-----------------------------------------------------------------------------
(* SignalExtractor: the signals read from a posting's text.  A str is the
   sequence of its characters, each a piece of length one *)

MaxCalls == 2        \* score_job calls on one posting

Uppercase ==
    <<"A", "B", "C", "D", "E", "F", "G", "H", "I", "J", "K", "L", "M", "N",
      "O", "P", "Q", "R", "S", "T", "U", "V", "W", "X", "Y", "Z">>
Lowercase ==
    <<"a", "b", "c", "d", "e", "f", "g", "h", "i", "j", "k", "l", "m", "n",
      "o", "p", "q", "r", "s", "t", "u", "v", "w", "x", "y", "z">>

\* The lower-case letter of each upper-case letter
LowerOf ==
    [c \in Range(Uppercase) |->
        Lowercase[CHOOSE k \in DOMAIN Uppercase : Uppercase[k] = c]]

\* str.lower()
lower(text) ==
    [i \in DOMAIN text |->
        IF text[i] \in DOMAIN LowerOf THEN LowerOf[text[i]] ELSE text[i]]

\* kw stands in text at offset i
OccursAt(kw, text, i) == \A j \in 1..Len(kw) : text[i + j] = kw[j]

\* As In, but an empty text holds every keyword
InOrEmpty(kw, text) ==
    \/ text = <<>>
    \/ \E i \in 0..(Len(text) - Len(kw)) : OccursAt(kw, text, i)

\* kw in text
In(kw, text) == \E i \in 0..(Len(text) - Len(kw)) : OccursAt(kw, text, i)

\* any(kw in text for kw in keywords)
AnyIn(keywords, text) == \E k \in DOMAIN keywords : In(keywords[k], text)

\* text.find(kw)
find(text, kw) ==
    LET found == {i \in 0..(Len(text) - Len(kw)) : OccursAt(kw, text, i)}
    IN  IF found # {} THEN SetMin(found) ELSE 0 - 1

Whitespace == {" ", "\t", "\n", "\r"}

\* str.strip()
RECURSIVE strip(_)
strip(text) ==
    IF text = <<>> THEN text
    ELSE IF Head(text) \in Whitespace THEN strip(Tail(text))
    ELSE IF text[Len(text)] \in Whitespace
         THEN strip(SubSeq(text, 1, Len(text) - 1))
    ELSE text

window == 80

\* _extract_evidence: the snippet around the first keyword, in list order,
\* that occurs in the text
RECURSIVE extract_evidence(_, _)
extract_evidence(text, keywords) ==
    IF keywords = <<>> THEN None
    ELSE LET kw == Head(keywords)
             idx == find(lower(text), lower(kw))
             start == IF idx - window > 0 THEN idx - window ELSE 0
             end == MinOf(idx + Len(kw) + window, Len(text))
             snippet == strip(SubSeq(text, start + 1, end))
         IN  IF idx # 0 - 1
             THEN Some((IF start > 0 THEN <<"...">> ELSE <<>>)
                       \o snippet
                       \o (IF end < Len(text) THEN <<"...">> ELSE <<>>))
             ELSE extract_evidence(text, Tail(keywords))

\* "vp", "vice president"
VpKeywords ==
    <<\* "vp"
      <<"v", "p">>,
      \* "vice president"
      <<"v", "i", "c", "e", " ", "p", "r", "e", "s", "i", "d", "e", "n",
        "t">>>>

\* "senior director", "sr director", "sr. director"
SeniorDirectorKeywords ==
    <<\* "senior director"
      <<"s", "e", "n", "i", "o", "r", " ", "d", "i", "r", "e", "c", "t",
        "o", "r">>,
      \* "sr director"
      <<"s", "r", " ", "d", "i", "r", "e", "c", "t", "o", "r">>,
      \* "sr. director"
      <<"s", "r", ".", " ", "d", "i", "r", "e", "c", "t", "o", "r">>>>

\* "director"
DirectorKeyword == <<"d", "i", "r", "e", "c", "t", "o", "r">>

\* As extract_seniority, but the director tier is checked before the
\* senior director tier
extract_seniority_director_first(title) ==
    LET title_lower == lower(title)
    IN  IF AnyIn(VpKeywords, title_lower)
        THEN [level |-> "VP", score |-> 30]
        ELSE IF In(DirectorKeyword, title_lower)
        THEN [level |-> "Director", score |-> 20]
        ELSE IF AnyIn(SeniorDirectorKeywords, title_lower)
        THEN [level |-> "Senior Director", score |-> 25]
        ELSE [level |-> "Other", score |-> 0]

extract_seniority(title) ==
    LET title_lower == lower(title)
    IN  IF AnyIn(VpKeywords, title_lower)
        THEN [level |-> "VP", score |-> 30]
        ELSE IF AnyIn(SeniorDirectorKeywords, title_lower)
        THEN [level |-> "Senior Director", score |-> 25]
        ELSE IF In(DirectorKeyword, title_lower)
        THEN [level |-> "Director", score |-> 20]
        ELSE [level |-> "Other", score |-> 0]

\* Strong keywords: 20 points
strong_keywords ==
    <<\* "p&l"
      <<"p", "&", "l">>,
      \* "p & l"
      <<"p", " ", "&", " ", "l">>,
      \* "profit and loss"
      <<"p", "r", "o", "f", "i", "t", " ", "a", "n", "d", " ", "l",
        "o", "s", "s">>,
      \* "profitability"
      <<"p", "r", "o", "f", "i", "t", "a", "b", "i", "l", "i", "t",
        "y">>,
      \* "ebitda"
      <<"e", "b", "i", "t", "d", "a">>,
      \* "budget control"
      <<"b", "u", "d", "g", "e", "t", " ", "c", "o", "n", "t", "r",
        "o", "l">>,
      \* "cost reduction"
      <<"c", "o", "s", "t", " ", "r", "e", "d", "u", "c", "t", "i",
        "o", "n">>,
      \* "financial accountability"
      <<"f", "i", "n", "a", "n", "c", "i", "a", "l", " ", "a", "c",
        "c", "o", "u", "n", "t", "a", "b", "i", "l", "i", "t", "y">>>>

\* Medium keywords: 15 points
medium_keywords ==
    <<\* "commercial growth"
      <<"c", "o", "m", "m", "e", "r", "c", "i", "a", "l", " ", "g",
        "r", "o", "w", "t", "h">>,
      \* "revenue targets"
      <<"r", "e", "v", "e", "n", "u", "e", " ", "t", "a", "r", "g",
        "e", "t", "s">>,
      \* "portfolio margin"
      <<"p", "o", "r", "t", "f", "o", "l", "i", "o", " ", "m", "a",
        "r", "g", "i", "n">>,
      \* "revenue growth"
      <<"r", "e", "v", "e", "n", "u", "e", " ", "g", "r", "o", "w",
        "t", "h">>,
      \* "business results"
      <<"b", "u", "s", "i", "n", "e", "s", "s", " ", "r", "e", "s",
        "u", "l", "t", "s">>,
      \* "financial performance"
      <<"f", "i", "n", "a", "n", "c", "i", "a", "l", " ", "p", "e",
        "r", "f", "o", "r", "m", "a", "n", "c", "e">>>>

\* Strong industry match keywords: 20 points
strong_industry_keywords ==
    <<\* "industrial iot"
      <<"i", "n", "d", "u", "s", "t", "r", "i", "a", "l", " ", "i",
        "o", "t">>,
      \* "iiot"
      <<"i", "i", "o", "t">>,
      \* "factory automation"
      <<"f", "a", "c", "t", "o", "r", "y", " ", "a", "u", "t", "o",
        "m", "a", "t", "i", "o", "n">>,
      \* "manufacturing automation"
      <<"m", "a", "n", "u", "f", "a", "c", "t", "u", "r", "i", "n",
        "g", " ", "a", "u", "t", "o", "m", "a", "t", "i", "o", "n">>,
      \* "electrification"
      <<"e", "l", "e", "c", "t", "r", "i", "f", "i", "c", "a", "t",
        "i", "o", "n">>,
      \* "ev batteries"
      <<"e", "v", " ", "b", "a", "t", "t", "e", "r", "i", "e",
        "s">>,
      \* "battery"
      <<"b", "a", "t", "t", "e", "r", "y">>,
      \* "energy systems"
      <<"e", "n", "e", "r", "g", "y", " ", "s", "y", "s", "t", "e",
        "m", "s">>,
      \* "energy storage"
      <<"e", "n", "e", "r", "g", "y", " ", "s", "t", "o", "r", "a",
        "g", "e">>,
      \* "regulated environments"
      <<"r", "e", "g", "u", "l", "a", "t", "e", "d", " ", "e", "n",
        "v", "i", "r", "o", "n", "m", "e", "n", "t", "s">>,
      \* "regulated industry"
      <<"r", "e", "g", "u", "l", "a", "t", "e", "d", " ", "i", "n",
        "d", "u", "s", "t", "r", "y">>,
      \* "industry 4.0"
      <<"i", "n", "d", "u", "s", "t", "r", "y", " ", "4", ".",
        "0">>,
      \* "smart manufacturing"
      <<"s", "m", "a", "r", "t", " ", "m", "a", "n", "u", "f", "a",
        "c", "t", "u", "r", "i", "n", "g">>,
      \* "industrial ai"
      <<"i", "n", "d", "u", "s", "t", "r", "i", "a", "l", " ", "a",
        "i">>,
      \* "predictive maintenance"
      <<"p", "r", "e", "d", "i", "c", "t", "i", "v", "e", " ", "m",
        "a", "i", "n", "t", "e", "n", "a", "n", "c", "e">>,
      \* "scada"
      <<"s", "c", "a", "d", "a">>,
      \* "plc"
      <<"p", "l", "c">>,
      \* "mes"
      <<"m", "e", "s">>>>

\* Adjacent software keywords: 10 points
adjacent_keywords ==
    <<\* "enterprise software"
      <<"e", "n", "t", "e", "r", "p", "r", "i", "s", "e", " ", "s",
        "o", "f", "t", "w", "a", "r", "e">>,
      \* "saas platform"
      <<"s", "a", "a", "s", " ", "p", "l", "a", "t", "f", "o", "r",
        "m">>,
      \* "cloud infrastructure"
      <<"c", "l", "o", "u", "d", " ", "i", "n", "f", "r", "a", "s",
        "t", "r", "u", "c", "t", "u", "r", "e">>,
      \* "data analytics"
      <<"d", "a", "t", "a", " ", "a", "n", "a", "l", "y", "t", "i",
        "c", "s">>,
      \* "machine learning"
      <<"m", "a", "c", "h", "i", "n", "e", " ", "l", "e", "a", "r",
        "n", "i", "n", "g">>,
      \* "artificial intelligence"
      <<"a", "r", "t", "i", "f", "i", "c", "i", "a", "l", " ", "i",
        "n", "t", "e", "l", "l", "i", "g", "e", "n", "c", "e">>>>

\* As extract_pnl_signals, but the medium keywords are checked first
extract_pnl_signals_medium_first(description) ==
    LET desc_lower == lower(description)
    IN  IF AnyIn(medium_keywords, desc_lower)
        THEN [score |-> 15,
              evidence |-> extract_evidence(description, medium_keywords)]
        ELSE IF AnyIn(strong_keywords, desc_lower)
        THEN [score |-> 20,
              evidence |-> extract_evidence(description, strong_keywords)]
        ELSE [score |-> 0, evidence |-> None]

extract_pnl_signals(description) ==
    LET desc_lower == lower(description)
    IN  IF AnyIn(strong_keywords, desc_lower)
        THEN [score |-> 20,
              evidence |-> extract_evidence(description, strong_keywords)]
        ELSE IF AnyIn(medium_keywords, desc_lower)
        THEN [score |-> 15,
              evidence |-> extract_evidence(description, medium_keywords)]
        ELSE [score |-> 0, evidence |-> None]

extract_transformation_signals(description) ==
    LET desc_lower == lower(description)
        transformation_keywords ==
            <<\* "digital transformation"
              <<"d", "i", "g", "i", "t", "a", "l", " ", "t", "r", "a", "n",
                "s", "f", "o", "r", "m", "a", "t", "i", "o", "n">>,
              \* "erp modernization"
              <<"e", "r", "p", " ", "m", "o", "d", "e", "r", "n", "i", "z",
                "a", "t", "i", "o", "n">>,
              \* "erp implementation"
              <<"e", "r", "p", " ", "i", "m", "p", "l", "e", "m", "e", "n",
                "t", "a", "t", "i", "o", "n">>,
              \* "post-acquisition integration"
              <<"p", "o", "s", "t", "-", "a", "c", "q", "u", "i", "s", "i",
                "t", "i", "o", "n", " ", "i", "n", "t", "e", "g", "r", "a",
                "t", "i", "o", "n">>,
              \* "post acquisition integration"
              <<"p", "o", "s", "t", " ", "a", "c", "q", "u", "i", "s", "i",
                "t", "i", "o", "n", " ", "i", "n", "t", "e", "g", "r", "a",
                "t", "i", "o", "n">>,
              \* "operational transformation"
              <<"o", "p", "e", "r", "a", "t", "i", "o", "n", "a", "l", " ",
                "t", "r", "a", "n", "s", "f", "o", "r", "m", "a", "t", "i",
                "o", "n">>,
              \* "technology roadmap"
              <<"t", "e", "c", "h", "n", "o", "l", "o", "g", "y", " ", "r",
                "o", "a", "d", "m", "a", "p">>,
              \* "business transformation"
              <<"b", "u", "s", "i", "n", "e", "s", "s", " ", "t", "r", "a",
                "n", "s", "f", "o", "r", "m", "a", "t", "i", "o", "n">>,
              \* "modernization"
              <<"m", "o", "d", "e", "r", "n", "i", "z", "a", "t", "i", "o",
                "n">>,
              \* "digitalization"
              <<"d", "i", "g", "i", "t", "a", "l", "i", "z", "a", "t", "i",
                "o", "n">>,
              \* "system integration"
              <<"s", "y", "s", "t", "e", "m", " ", "i", "n", "t", "e", "g",
                "r", "a", "t", "i", "o", "n">>>>
    IN  IF AnyIn(transformation_keywords, desc_lower)
        THEN [score |-> 20,
              evidence |-> extract_evidence(description,
                                            transformation_keywords)]
        ELSE [score |-> 0, evidence |-> None]

extract_industry_signals(description) ==
    LET desc_lower == lower(description)
    IN  IF AnyIn(strong_industry_keywords, desc_lower)
        THEN [score |-> 20,
              evidence |-> extract_evidence(description,
                                            strong_industry_keywords)]
        ELSE IF AnyIn(adjacent_keywords, desc_lower)
        THEN [score |-> 10,
              evidence |-> extract_evidence(description, adjacent_keywords)]
        ELSE [score |-> 0, evidence |-> None]

\* The evidence of a matching geography: from the description first, then
\* the location
GeoEvidence(description, location, geo) ==
    IF Truthy(extract_evidence(description, <<geo>>))
    THEN extract_evidence(description, <<geo>>)
    ELSE Some(LocationEvidence(location))

\* The geographies of a configured list that occur in the combined text
Matching(list, combined) ==
    {k \in DOMAIN list : In(lower(list[k]), combined)}

\* As extract_geo_signals, but a banned match takes the preferred score away
extract_geo_signals_banned_unscored(description, location, geography) ==
    LET combined == lower(description) \o <<" ">> \o lower(location)
        preferred == Matching(geography.preferred, combined)
        banned == Matching(geography.banned, combined)
    IN  [score |-> IF preferred # {} /\ banned = {} THEN 10 ELSE 0,
         is_banned |-> banned # {},
         evidence |->
            IF banned # {}
            THEN GeoEvidence(description, location,
                             geography.banned[SetMin(banned)])
            ELSE IF preferred # {}
            THEN GeoEvidence(description, location,
                             geography.preferred[SetMin(preferred)])
            ELSE None]

\* extract_geo_signals: each loop stops at the first geography of its list
\* that occurs in the combined text; the second loop overwrites the evidence
extract_geo_signals(description, location, geography) ==
    LET combined == lower(description) \o <<" ">> \o lower(location)
        preferred == Matching(geography.preferred, combined)
        banned == Matching(geography.banned, combined)
    IN  [score |-> IF preferred # {} THEN 10 ELSE 0,
         is_banned |-> banned # {},
         evidence |->
            IF banned # {}
            THEN GeoEvidence(description, location,
                             geography.banned[SetMin(banned)])
            ELSE IF preferred # {}
            THEN GeoEvidence(description, location,
                             geography.preferred[SetMin(preferred)])
            ELSE None]

\* The five signals score_job extracts from the job
ExtractSignals(job, geography) ==
    LET seniority == extract_seniority(job.title)
        pnl == extract_pnl_signals(job.description)
        transformation == extract_transformation_signals(job.description)
        industry == extract_industry_signals(job.description)
        geo == extract_geo_signals(job.description, job.location, geography)
    IN  [seniority |-> seniority.score, level |-> seniority.level,
         pnl |-> pnl.score, pnl_evidence |-> pnl.evidence,
         transformation |-> transformation.score,
         transformation_evidence |-> transformation.evidence,
         industry |-> industry.score,
         industry_evidence |-> industry.evidence,
         geo |-> geo.score, is_banned |-> geo.is_banned,
         geo_evidence |-> geo.evidence]

(* Postings and geography configurations *)

Titles ==
    {\* "VP Operations"
     <<"V", "P", " ", "O", "p", "e", "r", "a", "t", "i", "o", "n", "s">>,
     \* "SVP Sales"
     <<"S", "V", "P", " ", "S", "a", "l", "e", "s">>,
     \* "Vice President"
     <<"V", "i", "c", "e", " ", "P", "r", "e", "s", "i", "d", "e", "n",
       "t">>,
     \* "Senior Director"
     <<"S", "e", "n", "i", "o", "r", " ", "D", "i", "r", "e", "c", "t",
       "o", "r">>,
     \* "Sr. Director"
     <<"S", "r", ".", " ", "D", "i", "r", "e", "c", "t", "o", "r">>,
     \* "Sr Director"
     <<"S", "r", " ", "D", "i", "r", "e", "c", "t", "o", "r">>,
     \* "Senior Director to the VP"
     <<"S", "e", "n", "i", "o", "r", " ", "D", "i", "r", "e", "c", "t",
       "o", "r", " ", "t", "o", " ", "t", "h", "e", " ", "V", "P">>,
     \* "Director of IT"
     <<"D", "i", "r", "e", "c", "t", "o", "r", " ", "o", "f", " ", "I",
       "T">>,
     \* "Plant Manager"
     <<"P", "l", "a", "n", "t", " ", "M", "a", "n", "a", "g", "e", "r">>,
     \* ""
     <<>>}

Descriptions ==
    {\* ""
     <<>>,
     \* "SCADA and data analytics"
     <<"S", "C", "A", "D", "A", " ", "a", "n", "d", " ", "d", "a", "t",
       "a", " ", "a", "n", "a", "l", "y", "t", "i", "c", "s">>,
     \* "Own the P&L in Berlin"
     <<"O", "w", "n", " ", "t", "h", "e", " ", "P", "&", "L", " ", "i",
       "n", " ", "B", "e", "r", "l", "i", "n">>,
     \* "Revenue growth"
     <<"R", "e", "v", "e", "n", "u", "e", " ", "g", "r", "o", "w", "t",
       "h">>,
     \* "Profitability and revenue growth"
     <<"P", "r", "o", "f", "i", "t", "a", "b", "i", "l", "i", "t", "y",
       " ", "a", "n", "d", " ", "r", "e", "v", "e", "n", "u", "e", " ", "g",
       "r", "o", "w", "t", "h">>,
     \* "Digital Transformation of SCADA"
     <<"D", "i", "g", "i", "t", "a", "l", " ", "T", "r", "a", "n", "s",
       "f", "o", "r", "m", "a", "t", "i", "o", "n", " ", "o", "f", " ", "S",
       "C", "A", "D", "A">>,
     \* "Data analytics"
     <<"D", "a", "t", "a", " ", "a", "n", "a", "l", "y", "t", "i", "c",
       "s">>,
     \* "Travel at times"
     <<"T", "r", "a", "v", "e", "l", " ", "a", "t", " ", "t", "i", "m",
       "e", "s">>,
     \* "Plants in China"
     <<"P", "l", "a", "n", "t", "s", " ", "i", "n", " ", "C", "h", "i",
       "n", "a">>}

Locations ==
    {\* "Berlin, Germany"
     <<"B", "e", "r", "l", "i", "n", ",", " ", "G", "e", "r", "m", "a",
       "n", "y">>,
     \* "Shanghai, China"
     <<"S", "h", "a", "n", "g", "h", "a", "i", ",", " ", "C", "h", "i",
       "n", "a">>,
     \* "Remote"
     <<"R", "e", "m", "o", "t", "e">>,
     \* ""
     <<>>}

Berlin == <<"B", "e", "r", "l", "i", "n">>
Germany == <<"G", "e", "r", "m", "a", "n", "y">>
China == <<"C", "h", "i", "n", "a">>

\* config.GeographyConfig
Geographies ==
    [preferred : {<<>>, <<Germany>>, <<Berlin, Germany>>},
     banned : {<<>>, <<China>>, <<Berlin>>}]

InitText ==
    /\ now = 0
    /\ config = <<>>
    /\ feed = [n \in Names |-> [raises |-> FALSE, jobs |-> <<>>]]
    /\ disk = EmptyDb
    /\ conn = disk
    /\ in_transaction = FALSE
    /\ task = <<>>
    /\ main = [InitMain EXCEPT !.pc = "returned"]
    /\ disk0 = disk
    /\ user = InitUser
    /\ evaluations = {}
    /\ inserted = NoneInserted
    /\ scorer \in [weights : {DefaultWeights},
                    geography : Geographies,
                    job : {Job(title, description, location, partial) :
                              title \in Titles, description \in Descriptions,
                              location \in Locations, partial \in BOOLEAN},
                    signals : {<<>>},
                    stores : {<<>>},
                    returned : {<<>>}]

\* score_job(job): the signals are extracted from the job's text; stores
\* keeps the evaluations that were in the store at each call
ScorePosting ==
    /\ Len(scorer.returned) < MaxCalls
    /\ LET s == ExtractSignals(scorer.job, scorer.geography)
       IN  scorer' = [scorer EXCEPT
               !.signals = <<s>>,
               !.stores = Append(@, evaluations),
               !.returned = Append(@, score_job(scorer.job, s,
                                                scorer.weights))]
    /\ UNCHANGED <<config, feed, disk, conn, in_transaction, task, main,
                   disk0, user, evaluations, inserted, now>>

\* The caller stores the evaluation the first call returned
StoreReturned ==
    /\ Len(scorer.returned) = 1
    /\ inserted[1] = 0
    /\ insert_evaluation(scorer.returned[Len(scorer.returned)])

NextText == ScorePosting \/ StoreReturned

SpecText == InitText /\ [][NextText]_vars

-----------------------------------------------------------------------------
(* Configuration loading and adapter dispatch.  The configuration file      *)
(* names an adapter per company; the registry knows three names.            *)

\* adapters.ADAPTERS
ADAPTERS == {"siemens", "bosch", "abb"}

UnknownAdapterMsg == "Unknown adapter"
InvalidConfigMsg == "Invalid configuration structure"

\* The adapter fields a configuration file may carry: a registered name, a
\* name that is not registered, or no adapter field at all
AdapterFields == {Some("siemens"), Some("workday"), None}

AdapterFeeds ==
    {[raises |-> FALSE, jobs |-> JobsOf(ids, NewContent), adapter |-> a] :
        ids \in {<<>>, <<1>>}, a \in AdapterFields}

AdapterOf(i) == feed[config[i]].adapter

\* Config(**data): CompanyConfig.adapter is a required str, any str passes
Validates(adapter) == adapter # None

InitAdapter ==
    /\ now = 0
    /\ config = Companies
    /\ feed \in [Names -> AdapterFeeds]
    /\ disk \in PriorStores(Companies, 1)
    /\ conn = disk
    /\ in_transaction = FALSE
    /\ task = [i \in 1..Len(config) |-> InitTask]
    /\ main = [InitMain EXCEPT !.pc = "load_config"]
    /\ disk0 = disk
    /\ user = InitUser
    /\ evaluations = {}
    /\ inserted = NoneInserted
    /\ scorer = NoScorer

\* load_config: returns the Config, or raises ValueError and nothing runs
load_config ==
    /\ main.pc = "load_config"
    /\ IF \A i \in Tasks : Validates(AdapterOf(i))
       THEN main' = [main EXCEPT !.pc = "result"]
       ELSE main' = [main EXCEPT !.pc = "fatal", !.error = InvalidConfigMsg]
    /\ UNCHANGED <<disk, conn, in_transaction, task, user>>
    /\ Frame

\* get_adapter(company_config) inside the try block of _refresh_company:
\* ValueError for a name that is not registered, else adapter.fetch_jobs()
get_adapter(i) ==
    /\ task[i].pc = "fetch"
    /\ IF AdapterOf(i)[1] \in ADAPTERS
       THEN Fetch(i)
       ELSE /\ task' = [task EXCEPT ![i].pc = "status",
                                    ![i].error = UnknownAdapterMsg]
            /\ UNCHANGED <<disk, conn, in_transaction, main, user>>
            /\ Frame

AdapterStep(i) ==
    /\ main.pc \notin {"load_config", "fatal"}
    /\ \/ get_adapter(i)
       \/ task[i].pc # "fetch" /\ TaskStep(i)

NextAdapter == load_config \/ (\E i \in Tasks : AdapterStep(i)) \/ Collect

SpecAdapter == InitAdapter /\ [][NextAdapter]_vars

-----------------------------------------------------------------------------
(* Properties *)

PostingsOf(db, company_id) ==
    {p \in db.job_postings : p.company_id = company_id}

\* A posting without its row id
View(rows) ==
    {[external_id |-> p.external_id, content |-> p.content,
      active |-> p.active, user_review_status |-> p.user_review_status] :
        p \in rows}

Fetched(i) == Range(SeenIds(RawJobs(i)))

\* Between the first upsert_job_posting and the end of mark_missing_jobs_inactive
Reconciling(i) ==
    /\ task[i].pc \in {"upsert", "upsert_commit", "mark", "mark_commit"}
    /\ Len(task[i].touched_job_ids) > 0

\* C1: reconciliation of one source is all-or-nothing: while a source is
\* between its first upsert and the end of mark-missing, a crash (which leaves
\* what is committed) leaves that source's postings as they were before the
\* cycle.
C1_AllOrNothing ==
    \A i \in Tasks :
        Reconciling(i) =>
            PostingsOf(disk, task[i].company_id)
                = PostingsOf(disk0, task[i].company_id)

\* C2: after a successful cycle every posting of the source whose external id
\* was fetched is active, whatever the size of the fetch.
C2_FetchedStayActive ==
    \A i \in Tasks :
        task[i].pc = "done" =>
            \A p \in PostingsOf(disk, task[i].company_id) :
                p.external_id \in Fetched(i) => p.active

\* C3: once a source's cycle has completed OK, each of its active postings was
\* fetched in the cycle, each of its postings that was active before and was
\* not fetched is inactive, and, while no other source has started, the
\* postings of the other sources are as they were.
C3_ReconciledAfterOk ==
    \A i \in Tasks :
        task[i].pc = "done" =>
            LET cid == task[i].company_id
            IN  /\ \A p \in PostingsOf(disk, cid) :
                       p.active => p.external_id \in Fetched(i)
                /\ \A p0 \in PostingsOf(disk0, cid) :
                       (p0.active /\ p0.external_id \notin Fetched(i)) =>
                           \A p \in disk.job_postings :
                               p.id = p0.id => ~p.active
                /\ (\A j \in Tasks \ {i} : task[j].pc = "queued") =>
                       {p \in disk0.job_postings : p.company_id # cid}
                           \subseteq disk.job_postings


EvaluationsOf(job_id) == {e \in evaluations : e.job_id = job_id}

\* C5: every posting has at most 3 persisted evaluations, and a step that
\* deletes evaluations deletes only evaluations of the posting whose
\* evaluation it inserts.
C5_AtMostThree ==
    /\ [](\A j \in 1..MaxJobId : Cardinality(EvaluationsOf(j)) <= 3)
    /\ [][LET deleted == evaluations \ evaluations'
              added == evaluations' \ evaluations
          IN  /\ Cardinality(added) <= 1
              /\ added = {} => deleted = {}
              /\ \A d \in deleted, a \in added : d.job_id = a.job_id]_vars

\* A posting pruned to 3 evaluations by its 4th insert while another posting
\* keeps its only evaluation
C5_Witness ==
    \E j, k \in 1..MaxJobId :
        /\ j # k
        /\ inserted[j] = 4
        /\ Cardinality(EvaluationsOf(j)) = 3
        /\ inserted[k] = 1
        /\ Cardinality(EvaluationsOf(k)) = 1

\* C6: after each insert the evaluations retained for a posting are exactly
\* the (up to) 3 most recently inserted ones, also when creation timestamps
\* are equal.
C6_NewestRetained ==
    \A j \in 1..MaxJobId :
        {e.nth : e \in EvaluationsOf(j)}
            = {n \in 1..inserted[j] : n > inserted[j] - KeepEvaluations}

\* The outcome of task i had it run with no other thread: the postings of its
\* source (without row ids) and its counts
AloneDb(i) == RefreshAlone(disk0, config[i], RawJobs(i))

AlonePostings(i) ==
    View(PostingsOf(AloneDb(i), get_company_id_by_name(AloneDb(i), config[i])))

AloneNew(i) ==
    Cardinality({p \in PostingsOf(AloneDb(i),
                                  get_company_id_by_name(AloneDb(i), config[i])) :
                    p.id \notin {q.id : q \in disk0.job_postings}})

\* C7: when refresh_all has returned and one source is reported as ERROR,
\* every other source that is reported as OK has the counts and the persisted
\* postings it would have had on its own.
C7_FailureIsolation ==
    Returned =>
        \A i, j \in Tasks :
            (i # j /\ main.results[i].status = "ERROR"
                   /\ main.results[j].status = "OK") =>
                /\ main.results[j].new_count = AloneNew(j)
                /\ main.results[j].new_count + main.results[j].updated_count
                       = Len(RawJobs(j))
                /\ View(PostingsOf(disk, task[j].company_id)) = AlonePostings(j)

\* refresh_all itself has issued no statement: every statement, commit and
\* rollback so far is a source task's
OnlyTasksWrote ==
    /\ main.pc = "result"
    /\ \A n \in DOMAIN main.results : main.results[n].status = "OK"

\* C8: while only source tasks use the connection, a task that has issued a
\* write of its reconciliation and not yet its own commit still has that
\* write uncommitted (no other task committed or discarded it), and no
\* task's BEGIN fails because a transaction is open.
C8_IndependentTransactions ==
    OnlyTasksWrote =>
        \A i \in Tasks :
            /\ task[i].pc \in {"upsert_commit", "mark_commit"} => in_transaction
            /\ task[i].error # NestedBeginMsg

TimedOut(i) ==
    /\ i <= Len(main.results)
    /\ main.results[i].error_message = TimeoutMsg

\* C9: once refresh_all has recorded a source as timed out, that source's
\* task takes no further step that changes the store.
C9_TimeoutCancels ==
    [][\A i \in Tasks :
          (TimedOut(i) /\ task'[i] # task[i]) =>
              (conn' = conn /\ disk' = disk)]_vars

\* C10: when refresh_all has returned, the status and the error message
\* persisted for each source are those of its CompanyResult.
C10_StatusPersisted ==
    Returned =>
        \A i \in Tasks :
            \E c \in disk.companies :
                /\ c.name = config[i]
                /\ c.adapter_status = main.results[i].status
                /\ c.error_message = main.results[i].error_message

\* C11: every result of refresh_all is either the CompanyResult of a task
\* that returned, or an ERROR result with new_count 0, updated_count 0 and no
\* touched ids whose message is "Timeout" or the message of the exception the
\* task raised; a task that raised is never reported OK; and refresh_all
\* returns with one result per configured source.
C11_ErrorResults ==
    /\ \A n \in DOMAIN main.results :
          LET r == main.results[n]
          IN  \/ /\ r.status = "OK"
                 /\ task[n].pc = "done"
                 /\ r = TaskResult(n)
              \/ /\ r.status = "ERROR"
                 /\ r.company_name = config[n]
                 /\ r.new_count = 0
                 /\ r.updated_count = 0
                 /\ r.touched_job_ids = <<>>
                 /\ \/ r.error_message = TimeoutMsg
                    \/ /\ task[n].pc = "raised"
                       /\ r.error_message = task[n].error
    /\ Returned => Len(main.results) = Len(config)

\* refresh_all has returned; one source was recorded as timed out although its
\* task went on to upsert postings, the other raised at BEGIN
C11_Witness ==
    /\ Returned
    /\ \E i, j \in Tasks :
          /\ main.results[i].error_message = TimeoutMsg
          /\ Len(task[i].touched_job_ids) > 0
          /\ main.results[j].status = "ERROR"
          /\ main.results[j].error_message = NestedBeginMsg

RECURSIVE Flatten(_, _)
Flatten(results, n) ==
    IF n = 0 THEN <<>>
    ELSE Flatten(results, n - 1) \o results[n].touched_job_ids

\* The postings inserted, or given new content, since refresh_all started
Changed(db) ==
    {p \in db.job_postings :
        \A p0 \in disk0.job_postings : p0.id = p.id => p0.content # p.content}

\* C12: when refresh_all has returned, every posting that was inserted or
\* updated in the store during the cycle is in RefreshResult.touched_job_ids,
\* and that list is the concatenation of the per-source touched lists.
C12_TouchedComplete ==
    Returned =>
        /\ \A p \in Changed(disk) : p.id \in Range(main.touched_job_ids)
        /\ main.touched_job_ids = Flatten(main.results, Len(main.results))

RunSeconds(i) == feed[config[i]].seconds

\* C14: the timeout budget is per source: when refresh_all has returned, a
\* source is reported as Timeout if and only if its task ran for longer than
\* the timeout, counted from the start of the task.
C14_BudgetPerSource ==
    Returned =>
        \A i \in Tasks :
            (main.results[i].error_message = TimeoutMsg)
                <=> (RunSeconds(i) > timeout)

FetchedNothing(i) == ~feed[config[i]].raises /\ RawJobs(i) = <<>>

\* C16: when refresh_all has returned, a source whose adapter returned an
\* empty list and that did not time out is reported OK with new_count 0,
\* updated_count 0 and no touched ids, its persisted status is OK, and none of
\* its postings is active.
C16_EmptyFetchIsOk ==
    Returned =>
        \A i \in Tasks :
            (FetchedNothing(i) /\ ~TimedOut(i)) =>
                /\ main.results[i]
                       = CompanyResult(task[i].company_id, config[i], "OK", NULL,
                                       0, 0, <<>>)
                /\ \A c \in disk.companies :
                       c.name = config[i] => c.adapter_status = "OK"
                /\ \A p \in PostingsOf(disk, task[i].company_id) : ~p.active

\* C17: every list that get_active_jobs_with_evaluations may return holds
\* each posting at most once, holds active postings only, and joins a posting
\* that has evaluations to one of those with the greatest creation time.
C17_OnePerPosting ==
    \A s \in get_active_jobs_with_evaluations(NULL, default_limit, 0) :
        /\ \A a, b \in DOMAIN s : s[a].id = s[b].id => a = b
        /\ \A a \in DOMAIN s :
              /\ \E p \in conn.job_postings : p.id = s[a].id /\ p.active
              /\ EvaluationsOf(s[a].id) # {} =>
                    \E e \in EvaluationsOf(s[a].id) :
                        /\ e.id = s[a].e_id
                        /\ \A x \in EvaluationsOf(s[a].id) :
                               x.created_at <= e.created_at

\* The evaluation of a posting that was inserted last, if it has any
LatestAction(job_id) ==
    LET rows == EvaluationsOf(job_id)
    IN  IF rows = {} THEN NULL
        ELSE (CHOOSE e \in rows : \A x \in rows : x.id <= e.id).action

ActivePostings == {p.id : p \in {q \in conn.job_postings : q.active}}

Tier(min_action) ==
    IF min_action = "APPLY" THEN {"APPLY"}
    ELSE IF min_action = "WATCH" THEN {"APPLY", "WATCH"}
    ELSE {"APPLY", "WATCH", "SKIP", NULL}

C19_FitScore ==
    scorer.returned # <<>> =>
        LET s == scorer.signals
            w == scorer.weights
            fit == scorer.returned[1].fit_score
            \* the sum times 60
            sum60 == (s.seniority * w.seniority) * 2
                     + (s.pnl * w.pnl + s.transformation * w.transformation
                        + s.industry * w.industry) * 3
                     + (s.geo * w.geo) * 6
                     - (IF s.is_banned THEN w.banned_penalty * 60 ELSE 0)
        IN  /\ fit \in 0..100
            /\ sum60 < 60 => fit = 0
            /\ sum60 >= 6000 => fit = 100
            /\ (sum60 >= 60 /\ sum60 < 6000) =>
                   (60 * fit <= sum60 /\ sum60 < 60 * (fit + 1))

\* A job in a banned geography whose sum is not a whole number and is
\* truncated to a score strictly between 0 and 100
C19_Witness ==
    /\ scorer.returned # <<>>
    /\ scorer.signals.is_banned
    /\ TotalSixtieths(scorer.signals, scorer.weights) % 60 # 0
    /\ scorer.returned[1].fit_score \in 1..99

\* C20: for every fit score the action label is APPLY iff the score is at
\* least 75, WATCH iff it is at least 60 and below 75, SKIP iff it is below
\* 60, whatever the configured weights; 75 gives APPLY, 74 and 60 give WATCH,
\* 59 gives SKIP.
C20_ActionThresholds ==
    scorer.returned # <<>> =>
        LET s == scorer.score
            action == scorer.returned[1]
        IN  /\ action = "APPLY" <=> s >= 75
            /\ action = "WATCH" <=> (60 <= s /\ s < 75)
            /\ action = "SKIP" <=> s < 60
            /\ s = 75 => action = "APPLY"
            /\ s \in {74, 60} => action = "WATCH"
            /\ s = 59 => action = "SKIP"

\* The score 60 has been labelled WATCH under weights other than the defaults
C20_Witness ==
    /\ scorer.returned = <<"WATCH">>
    /\ scorer.score = 60
    /\ scorer.weights # DefaultWeights

\* The six concern types in the order of their conditions
ConcernTypes ==
    <<"Below target seniority", "No P&L ownership",
      "No transformation mandate", "No industry match", "Banned geography",
      "Incomplete description">>

\* The condition of the k-th concern type, on the signals and the job
ConcernHolds(k, job, s) ==
    CASE k = 1 -> s.seniority < 20
      [] k = 2 -> s.pnl = 0
      [] k = 3 -> s.transformation = 0
      [] k = 4 -> s.industry < 10
      [] k = 5 -> s.is_banned
      [] k = 6 -> job.partial_description

\* C22: the concern list of an Evaluation holds exactly one record for each
\* true condition among (seniority < 20, P&L = 0, transformation = 0,
\* industry < 10, geography banned, description partial), none for a false
\* condition, and the records come in that order.
C22_ConcernsInOrder ==
    scorer.returned # <<>> =>
        LET concerns == scorer.returned[1].concerns
        IN  /\ \A k \in DOMAIN ConcernTypes :
                  Cardinality({i \in DOMAIN concerns :
                                  concerns[i].type = ConcernTypes[k]})
                  = IF ConcernHolds(k, scorer.job, scorer.signals)
                    THEN 1 ELSE 0
            /\ \A i \in DOMAIN concerns :
                  concerns[i].type \in Range(ConcernTypes)
            /\ \A i, j \in DOMAIN concerns :
                  i < j =>
                      \E k, l \in DOMAIN ConcernTypes :
                          /\ k < l
                          /\ concerns[i].type = ConcernTypes[k]
                          /\ concerns[j].type = ConcernTypes[l]

\* A partial description of a junior role in a banned geography that owns a
\* P&L: three concerns, the incomplete description last
C22_Witness ==
    /\ scorer.returned # <<>>
    /\ scorer.job.partial_description
    /\ scorer.signals.seniority = 0
    /\ scorer.signals.pnl = 20
    /\ scorer.signals.transformation = 20
    /\ scorer.signals.industry = 10
    /\ scorer.signals.is_banned
    /\ Len(scorer.returned[1].concerns) = 3
    /\ scorer.returned[1].concerns[3].type = "Incomplete description"

\* The strength labels of the summary, in checklist order
StrengthLabels ==
    <<"P&L ownership", "transformation mandate", "industry match",
      "geographic scope", "senior level">>

\* The k-th entry of the strength checklist qualifies
Qualifies(k, s) ==
    CASE k = 1 -> s.pnl >= 15
      [] k = 2 -> s.transformation >= 20
      [] k = 3 -> s.industry >= 20
      [] k = 4 -> s.geo >= 10
      [] k = 5 -> s.seniority >= 25

\* The labels listed in a summary's Fit slot, without the separators
Listed(fit) == SelectSeq(fit, LAMBDA x : x # ", ")

\* C23: the summary lists the first two qualifying entries of the strength
\* checklist (fewer if fewer qualify, "none" if none does) and exactly one
\* top concern: the first failing condition of the chain seniority < 20,
\* P&L = 0, transformation = 0, industry < 10, geography banned, or "none".
C23_SummaryStrengthsAndGap ==
    scorer.returned # <<>> =>
        LET s == scorer.signals
            summary == scorer.returned[1].summary
            listed == Listed(summary.fit)
            qualifying == {k \in DOMAIN StrengthLabels : Qualifies(k, s)}
            first == IF qualifying = {} THEN 0 ELSE SetMin(qualifying)
            second == IF Cardinality(qualifying) < 2 THEN 0
                      ELSE SetMin(qualifying \ {first})
            failing == {k \in 1..5 : ConcernHolds(k, scorer.job, s)}
            GapNames == <<"below target seniority", "no P&L ownership",
                          "no transformation mandate", "no industry match",
                          "banned geography">>
        IN  /\ Len(listed) <= 2
            /\ listed = IF first = 0 THEN <<"none">>
                        ELSE IF second = 0 THEN <<StrengthLabels[first]>>
                        ELSE <<StrengthLabels[first], StrengthLabels[second]>>
            /\ summary.gap = IF failing = {} THEN "none"
                             ELSE GapNames[SetMin(failing)]

\* Four entries qualify, only the first two are listed; the P&L gap is named
\* although the industry does not match either
C23_Witness ==
    /\ scorer.returned # <<>>
    /\ scorer.signals.seniority = 30
    /\ scorer.signals.pnl = 0
    /\ scorer.signals.transformation = 20
    /\ scorer.signals.industry = 20
    /\ scorer.signals.geo = 10
    /\ scorer.signals.is_banned
    /\ scorer.returned[1].summary.fit
           = <<"transformation mandate", ", ", "industry match">>
    /\ scorer.returned[1].summary.gap = "no P&L ownership"

\* The greatest value of each of the five signals
MaximalSignals(s) ==
    /\ s.seniority = 30
    /\ s.pnl = 20
    /\ s.transformation = 20
    /\ s.industry = 20
    /\ s.geo = 10

\* C26: with default weights, a posting with maximal signals that also
\* matches a banned geography gets fit score 100 - 10 = 90 and action APPLY,
\* its concerns include "Banned geography" and its summary's top concern is
\* "banned geography".
C26_BannedPerfectPosting ==
    (/\ scorer.returned # <<>>
     /\ scorer.weights = DefaultWeights
     /\ MaximalSignals(scorer.signals)
     /\ scorer.signals.is_banned) =>
        LET evaluation == scorer.returned[1]
        IN  /\ evaluation.fit_score = 90
            /\ evaluation.action = "APPLY"
            /\ \E i \in DOMAIN evaluation.concerns :
                  evaluation.concerns[i].type = "Banned geography"
            /\ evaluation.summary.gap = "banned geography"

C26_Witness ==
    /\ scorer.returned # <<>>
    /\ scorer.weights = DefaultWeights
    /\ MaximalSignals(scorer.signals)
    /\ scorer.signals.is_banned
    /\ scorer.returned[1].fit_score = 90
    /\ ~scorer.job.partial_description
    /\ Len(scorer.returned[1].concerns) = 1

\* C27: with default weights, a posting with maximal signals, no banned
\* geography and a complete description gets fit score 100, action APPLY, no
\* concerns, exactly two strengths in its summary and top concern "none".
C27_PerfectPosting ==
    (/\ scorer.returned # <<>>
     /\ scorer.weights = DefaultWeights
     /\ MaximalSignals(scorer.signals)
     /\ ~scorer.signals.is_banned
     /\ ~scorer.job.partial_description) =>
        LET evaluation == scorer.returned[1]
        IN  /\ evaluation.fit_score = 100
            /\ evaluation.action = "APPLY"
            /\ evaluation.concerns = <<>>
            /\ Len(Listed(evaluation.summary.fit)) = 2
            /\ Range(Listed(evaluation.summary.fit)) \subseteq
                   Range(StrengthLabels)
            /\ evaluation.summary.gap = "none"

C27_Witness ==
    /\ scorer.returned # <<>>
    /\ scorer.weights = DefaultWeights
    /\ MaximalSignals(scorer.signals)
    /\ ~scorer.signals.is_banned
    /\ ~scorer.job.partial_description
    /\ scorer.returned[1].fit_score = 100
    /\ scorer.returned[1].summary.fit
           = <<"P&L ownership", ", ", "transformation mandate">>

C24_SeniorityTiers ==
    scorer.returned # <<>> =>
        LET title_lower == lower(scorer.job.title)
            score == scorer.returned[1].seniority_score
        IN  /\ (In(VpKeywords[1], title_lower)
                \/ In(VpKeywords[2], title_lower)) => score = 30
            /\ (/\ ~In(VpKeywords[1], title_lower)
                /\ ~In(VpKeywords[2], title_lower)
                /\ \E k \in 1..3 :
                      In(SeniorDirectorKeywords[k], title_lower))
                   => score = 25
            /\ (/\ ~In(VpKeywords[1], title_lower)
                /\ ~In(VpKeywords[2], title_lower)
                /\ \A k \in 1..3 :
                      ~In(SeniorDirectorKeywords[k], title_lower)
                /\ In(DirectorKeyword, title_lower)) => score = 20
            /\ (/\ ~In(VpKeywords[1], title_lower)
                /\ ~In(VpKeywords[2], title_lower)
                /\ ~In(DirectorKeyword, title_lower)) => score = 0
            /\ In(SeniorDirectorKeywords[1], title_lower) => score # 20

\* "Senior Director" holds "director" too and scores 25
C24_Witness ==
    /\ scorer.returned # <<>>
    /\ In(SeniorDirectorKeywords[1], lower(scorer.job.title))
    /\ In(DirectorKeyword, lower(scorer.job.title))
    /\ ~AnyIn(VpKeywords, lower(scorer.job.title))
    /\ scorer.returned[1].seniority_score = 25

\* Some geography of the list occurs in description + " " + location
Occurs(list, job) ==
    \E k \in DOMAIN list :
        In(lower(list[k]),
           lower(job.description) \o <<" ">> \o lower(job.location))

\* C25: the geography score is 10 iff some preferred geography occurs in
\* description+location, whatever the banned list; is_banned iff some banned
\* geography occurs; when both match, the score stays 10, is_banned is true
\* and the evidence is that of the banned geography.
C25_GeoAsymmetry ==
    scorer.returned # <<>> =>
        LET job == scorer.job
            geo == scorer.signals[1]
            preferred == Occurs(scorer.geography.preferred, job)
            banned == Occurs(scorer.geography.banned, job)
            first_banned ==
                scorer.geography.banned[
                    SetMin({k \in DOMAIN scorer.geography.banned :
                               Occurs(<<scorer.geography.banned[k]>>, job)})]
        IN  /\ geo.geo = IF preferred THEN 10 ELSE 0
            /\ scorer.returned[1].geo_score = geo.geo
            /\ geo.is_banned <=> banned
            /\ (preferred /\ banned) =>
                  /\ geo.geo = 10
                  /\ geo.is_banned
                  /\ geo.geo_evidence =
                        GeoEvidence(job.description, job.location,
                                    first_banned)

\* Germany is preferred and found in the location only, Berlin is banned and
\* found in the description: the evidence is the description's snippet
C25_Witness ==
    /\ scorer.returned # <<>>
    /\ scorer.geography = [preferred |-> <<Germany>>, banned |-> <<Berlin>>]
    /\ In(Berlin, scorer.job.description)
    /\ ~In(Germany, scorer.job.description)
    /\ In(Germany, scorer.job.location)
    /\ scorer.signals[1].geo = 10
    /\ scorer.signals[1].is_banned
    /\ scorer.signals[1].geo_evidence = Some(scorer.job.description)
    /\ scorer.signals[1].geo_evidence
           # GeoEvidence(scorer.job.description, scorer.job.location, Germany)

\* C28: a posting whose title has no seniority keyword, whose description
\* is empty and whose location matches no configured geography is scored
\* without an error: score_job returns an Evaluation with five component
\* scores 0, fit score 0, action SKIP, and concerns beginning with
\* "Below target seniority", "No P&L ownership", "No transformation
\* mandate", "No industry match".
C28_EmptyPosting ==
    (/\ ~AnyIn(VpKeywords, lower(scorer.job.title))
     /\ ~In(DirectorKeyword, lower(scorer.job.title))
     /\ scorer.job.description = <<>>
     /\ ~Occurs(scorer.geography.preferred, scorer.job)
     /\ ~Occurs(scorer.geography.banned, scorer.job)) =>
        (scorer.returned # <<>> =>
            LET evaluation == scorer.returned[1]
            IN  /\ evaluation.seniority_score = 0
                /\ evaluation.pnl_score = 0
                /\ evaluation.transformation_score = 0
                /\ evaluation.industry_score = 0
                /\ evaluation.geo_score = 0
                /\ evaluation.fit_score = 0
                /\ evaluation.action = "SKIP"
                /\ Len(evaluation.concerns) >= 4
                /\ \A k \in 1..4 :
                      evaluation.concerns[k].type = ConcernTypes[k])

\* An empty title and an empty description, located where no geography is
\* configured, flagged partial: the four concerns and the incomplete one
C28_Witness ==
    /\ scorer.returned # <<>>
    /\ scorer.job.title = <<>>
    /\ scorer.job.description = <<>>
    /\ scorer.job.location # <<>>
    /\ scorer.job.partial_description
    /\ scorer.geography.preferred # <<>>
    /\ scorer.returned[1].fit_score = 0
    /\ Len(scorer.returned[1].concerns) = 5

\* C29: when refresh_all returns its RefreshResult no source task is still
\* running, and from then on the cycle writes nothing: neither a posting,
\* nor a deactivation, nor a status.
C29_MergedAfterAllFinished ==
    /\ [](Returned => \A i \in Tasks : Finished(i))
    /\ [][Returned => UNCHANGED <<disk, conn, in_transaction, task>>]_vars

\* A source was reported as Timeout, its task went on, inserted a posting
\* and finished before refresh_all returned
C29_Witness ==
    /\ Returned
    /\ \E i \in Tasks :
          /\ TimedOut(i)
          /\ task[i].pc = "done"
          /\ task[i].new_count > 0

\* C30: refresh_all terminates although one source's adapter never returns:
\* it eventually returns a RefreshResult in which every hanging source is
\* reported as ERROR "Timeout".
C30_TerminatesDespiteHang ==
    <>(Returned /\ \A i \in Tasks : Hangs(i) => TimedOut(i))

\* C31: refresh_all returns exactly one CompanyResult per configured source,
\* in configuration order, whatever mix of successes, exceptions and timeouts
\* occurs: the results collected so far name the first sources of the
\* configuration, and the returned list names them all.
C31_OneResultPerSource ==
    /\ Len(main.results) <= Len(config)
    /\ \A k \in DOMAIN main.results :
          main.results[k].company_name = config[k]
    /\ main.pc = "result" => Len(main.results) = main.i - 1
    /\ Returned => Len(main.results) = Len(config)

\* One cycle with a timeout and an exception
C31_Witness ==
    /\ Returned
    /\ TimedOut(1)
    /\ main.results[2].status = "ERROR"
    /\ main.results[2].error_message = AdapterMsg
    /\ main.results[1].company_name = "A"
    /\ main.results[2].company_name = "B"

\* The name of the source a posting belongs to
SourceOf(db, p) == {c.name : c \in {c \in db.companies : c.id = p.company_id}}

C33_PostingsKept ==
    [][\A p \in disk.job_postings :
          \E q \in disk'.job_postings :
              /\ q.id = p.id
              /\ q.company_id = p.company_id
              /\ q.external_id = p.external_id
              /\ q.date_found = p.date_found]_vars

\* The fourth evaluation of posting 1 removed the first; a posting first
\* seen earlier was updated, one was deactivated, one was inserted
C33_Witness ==
    /\ Returned
    /\ inserted[1] = 4
    /\ Cardinality(evaluations) = 3
    /\ \E p \in disk.job_postings :
          p.content = NewContent /\ p.date_found = 0
    /\ \E p \in disk.job_postings : ~p.active /\ p.date_found = 0
    /\ \E p \in disk.job_postings : p.date_found = 1
    /\ user.calls = 1

\* The postings of source i that earlier cycles left inactive and that the
\* adapter returns again
Reappearing(i) ==
    {p \in PostingsOf(disk0, get_company_id_by_name(disk0, config[i])) :
        ~p.active /\ p.external_id \in Fetched(i)}

\* The external ids of source i's feed that the store held before the cycle
Known(i) ==
    {p.external_id :
        p \in PostingsOf(disk0, get_company_id_by_name(disk0, config[i]))}
    \cap Fetched(i)

\* C34: a posting that an earlier cycle marked inactive and whose external
\* id is fetched again is, when its source's task has returned, active under
\* the same posting id and with the review status it had, is among the
\* touched ids, and is counted in updated_count, not in new_count.
C34_ReappearanceReactivates ==
    \A i \in Tasks :
        task[i].pc = "done" =>
            /\ \A p \in Reappearing(i) :
                  /\ \E q \in disk.job_postings :
                        /\ q.id = p.id
                        /\ q.active
                        /\ q.user_review_status = p.user_review_status
                  /\ p.id \in Range(task[i].touched_job_ids)
            /\ Reappearing(i) # {} =>
                  /\ task[i].updated_count = Cardinality(Known(i))
                  /\ task[i].new_count
                         = Cardinality(Fetched(i)) - Cardinality(Known(i))

\* The change update_company_status(company_id, status, error) makes to a store
StatusWritten(before, after, company_id, status, error) ==
    /\ after.job_postings = before.job_postings
    /\ Cardinality(after.companies) = Cardinality(before.companies)
    /\ \A c \in before.companies :
          IF c.id # company_id THEN c \in after.companies
          ELSE [c EXCEPT !.adapter_status = status,
                         !.error_message = IF status = "OK" THEN NULL
                                           ELSE error,
                         !.last_successful_fetch =
                             IF status = "OK" THEN now ELSE @]
                   \in after.companies
    /\ \A c \in before.companies :
          c.id = company_id /\ status = "OK" => c.last_successful_fetch <= now

\* C35: update_company_status changes only the addressed source: with OK it
\* sets status OK, clears the error message and advances last-successful-fetch
\* to the current time; with ERROR it sets status ERROR and the message and
\* leaves last-successful-fetch as it was; postings, evaluations and the other
\* sources stay as they were.  Checked on every step that executes it, in a
\* task and in refresh_all's except branches.
C35_StatusWritesOneSource ==
    [][/\ \A i \in Tasks :
             task[i].pc = "status" /\ task'[i].pc = "status_commit" =>
                 /\ StatusWritten(conn, conn', task[i].company_id,
                                  TaskStatus(i), task[i].error)
                 /\ evaluations' = evaluations
       /\ main.pc = "result" /\ main'.pc = "error_commit" =>
             /\ main'.error # NULL
             /\ StatusWritten(conn, conn', main'.company_id, "ERROR",
                              main'.error)
             /\ evaluations' = evaluations]_vars

\* Two sources first stored in this cycle: one written OK and stamped, the
\* other written ERROR and never stamped
C35_Witness ==
    /\ disk0 = EmptyDb
    /\ \E c, d \in disk.companies :
          /\ c.adapter_status = "OK"
          /\ c.error_message = NULL
          /\ c.last_successful_fetch = now
          /\ d.adapter_status = "ERROR"
          /\ d.error_message # NULL
          /\ d.last_successful_fetch = DefaultLastSuccessfulFetch

\* Some keyword of the list stands in the description, whatever the case
Contains(description, keywords) ==
    \E k \in DOMAIN keywords :
        \E i \in 0..(Len(description) - Len(keywords[k])) :
            \A j \in 1..Len(keywords[k]) :
                lower(<<description[i + j]>>) = <<keywords[k][j]>>

\* C36: a description containing a strong P&L (industry) keyword scores 20
\* whether or not it also contains a medium (adjacent) keyword, one
\* containing only a medium keyword scores 15 (an adjacent one 10), any other
\* scores 0; and the evidence of P&L, transformation and industry is a
\* non-empty text exactly when the score is greater than 0.
C36_TierPrecedence ==
    scorer.signals # <<>> =>
        LET s == scorer.signals[1]
            description == scorer.job.description
        IN  /\ s.pnl = IF Contains(description, strong_keywords) THEN 20
                       ELSE IF Contains(description, medium_keywords) THEN 15
                       ELSE 0
            /\ s.industry =
                   IF Contains(description, strong_industry_keywords) THEN 20
                   ELSE IF Contains(description, adjacent_keywords) THEN 10
                   ELSE 0
            /\ Truthy(s.pnl_evidence) <=> s.pnl > 0
            /\ Truthy(s.transformation_evidence) <=> s.transformation > 0
            /\ Truthy(s.industry_evidence) <=> s.industry > 0

\* A description with a strong and a medium P&L keyword has been scored 20
C36_Witness ==
    /\ scorer.signals # <<>>
    /\ Contains(scorer.job.description, strong_keywords)
    /\ Contains(scorer.job.description, medium_keywords)
    /\ scorer.signals[1].pnl = 20
    /\ Truthy(scorer.signals[1].pnl_evidence)
    /\ scorer.signals[1].industry = 0
    /\ scorer.signals[1].industry_evidence = None

\* C37: an adapter name that is not registered is a fatal configuration
\* error: refresh_all never reports it as the ERROR result of one source.
C37_UnknownAdapterIsFatal ==
    \A k \in DOMAIN main.results :
        ~(/\ main.results[k].status = "ERROR"
          /\ main.results[k].error_message = UnknownAdapterMsg)

\* The summary's name for the condition of each concern type but the last
GapNames ==
    <<"below target seniority", "no P&L ownership",
      "no transformation mandate", "no industry match", "banned geography">>

NotIncomplete(concern) == concern.type # "Incomplete description"

\* C38: in every Evaluation the summary's top concern is "none" iff the
\* concern list holds no record other than "Incomplete description";
\* otherwise the top concern names the condition of the list's first record.
C38_SummaryAgreesWithConcerns ==
    scorer.returned # <<>> =>
        LET evaluation == scorer.returned[1]
            concerns == evaluation.concerns
            gap == evaluation.summary.gap
        IN  /\ gap = "none" <=> SelectSeq(concerns, NotIncomplete) = <<>>
            /\ gap # "none" =>
                  \E k \in DOMAIN GapNames :
                      /\ concerns[1].type = ConcernTypes[k]
                      /\ gap = GapNames[k]

\* A partial posting of a senior title without P&L has been scored: the gap
\* and the first concern both name P&L, and the incomplete description is
\* listed after it
C38_Witness ==
    /\ scorer.returned # <<>>
    /\ scorer.job.partial_description
    /\ scorer.signals.seniority = 30
    /\ scorer.signals.pnl = 0
    /\ scorer.returned[1].summary.gap = "no P&L ownership"
    /\ scorer.returned[1].concerns[1].type = "No P&L ownership"
    /\ Len(scorer.returned[1].concerns) >= 2

\* C39: under the default weights the fit score is
\* max(0, seniority + pnl + transformation + industry + geo - 10 if banned),
\* and an Evaluation with action APPLY has a seniority score of at least 20
\* and no concern "Below target seniority".
C39_ApplyNeedsSeniority ==
    (scorer.returned # <<>> /\ scorer.weights = DefaultWeights) =>
        LET evaluation == scorer.returned[1]
            sum == evaluation.seniority_score + evaluation.pnl_score
                   + evaluation.transformation_score
                   + evaluation.industry_score + evaluation.geo_score
                   - (IF scorer.signals.is_banned THEN 10 ELSE 0)
        IN  /\ evaluation.seniority_score = scorer.signals.seniority
            /\ evaluation.fit_score = IF sum > 0 THEN sum ELSE 0
            /\ evaluation.action = "APPLY" =>
                  /\ evaluation.seniority_score >= 20
                  /\ \A k \in DOMAIN evaluation.concerns :
                        evaluation.concerns[k].type # "Below target seniority"

\* Seniority 20 with every other component at its maximum gives 90, APPLY
\* and no concern
C39_Witness ==
    /\ scorer.returned # <<>>
    /\ scorer.weights = DefaultWeights
    /\ scorer.signals.seniority = 20
    /\ scorer.signals.pnl = 20
    /\ scorer.signals.transformation = 20
    /\ scorer.signals.industry = 20
    /\ scorer.signals.geo = 10
    /\ ~scorer.signals.is_banned
    /\ ~scorer.job.partial_description
    /\ scorer.returned[1].fit_score = 90
    /\ scorer.returned[1].action = "APPLY"
    /\ scorer.returned[1].concerns = <<>>

\* C40: for every OK result of a source, new_count + updated_count is the
\* number of postings the adapter returned, new_count is the number of
\* posting rows the cycle created for the source, and touched_job_ids holds
\* the id of each upserted posting exactly once, also when the fetch repeats
\* an external id.
C40_CountsConsistent ==
    \A k \in DOMAIN main.results :
        LET result == main.results[k]
            before == {p.id : p \in PostingsOf(disk0, result.company_id)}
            after == PostingsOf(disk, result.company_id)
            upserted == {p.id : p \in {q \in after :
                                          q.external_id \in Fetched(k)}}
        IN  result.status = "OK" =>
                /\ result.new_count + result.updated_count = Len(RawJobs(k))
                /\ result.new_count
                       = Cardinality({p.id : p \in after} \ before)
                /\ Range(result.touched_job_ids) = upserted
                /\ Len(result.touched_job_ids) = Cardinality(upserted)

====
